---------------------------- MODULE Spec2Model ----------------------------
(***************************************************************************)
(* Model of real-temperature-proxy-api: the cached /v1/current route, the  *)
(* RequestCoalescer of services/weather.py and the retrying Open-Meteo     *)
(* client of services/openmeteo.py.                                        *)
(*                                                                         *)
(* Scheduling is asyncio's: one thread, a request is switched out only at  *)
(* an await that really suspends.  In coalesce these are `await            *)
(* fetch_func()` (the leader) and `await self._events[key].wait()` on an   *)
(* unset event (a waiter).  `async with self._locks[key]` never suspends,  *)
(* because no lock is held across a suspension, so each action below is    *)
(* the code a request runs between two suspensions.  SpecSteps runs        *)
(* coalesce one statement at a time, with the Lock objects, and shows it.  *)
(***************************************************************************)
EXTENDS Integers, Sequences, FiniteSets, TLC

(* ------------------------------ bounds -------------------------------- *)
\* number of requests of one run; request r arrives after request r-1
MaxRequests == 4
\* REQUEST_COALESCE_LIMIT of the run (max_waiters of the coalescer)
MaxWaiters == 2
\* CACHE_TTL of the run, in seconds
CacheTTL == 2
\* the clock stops at MaxTime seconds
MaxTime == 3
\* the largest max_size an LRUInMemoryBackend is built with
MaxCapacity == 2

Requests == 1..MaxRequests

(* --------------------------- coordinates ------------------------------ *)
\* A coordinate is an integer count of 1e-5 degrees; a request carries a
\* <<lat, lon>> pair.  The first two pairs differ beyond the 4th decimal only.
AllCoords == {<<5252000, 1341001>>, <<5252004, 1341001>>, <<5252010, 1341001>>}
\* the coordinates the requests of Spec are made with: one key, two cache keys
RawCoords == {<<5252000, 1341001>>, <<5252004, 1341001>>}
\* three pairs that differ beyond the 4th decimal only: one key, three cache
\* keys
SameKeyCoords == RawCoords \cup {<<5252002, 1341001>>}
\* two pairs with different keys
TwoKeyCoords == {<<5252000, 1341001>>, <<5252010, 1341001>>}

\* faulty variant: the next multiple of 1e-4 above x, also when x is one
Round4Next(x) == 10 * ((x \div 10) + 1)

\* faulty variant: every coordinate off a multiple of 1e-4 is rounded up
Round4Up(x) == IF x % 10 = 0 THEN x ELSE 10 * ((x \div 10) + 1)

\* round(x, 4): the nearest multiple of 1e-4 degrees (10 units), ties to even
Round4(x) ==
    LET q == x \div 10
        m == x % 10
    IN  IF m < 5 THEN 10 * q
        ELSE IF m > 5 THEN 10 * (q + 1)
        ELSE IF q % 2 = 0 THEN 10 * q ELSE 10 * (q + 1)

\* key = (round(latitude, 4), round(longitude, 4))
CoalesceKey(raw) == <<Round4(raw[1]), Round4(raw[2])>>

\* the response cache is keyed by the route's own (unrounded) arguments
CacheKey(raw) == raw

Keys == {CoalesceKey(raw) : raw \in AllCoords}

(* ----------------------------- values --------------------------------- *)
NoValue == [tag |-> "none", id |-> 0]
\* the WeatherResponse object returned by fetch_func invocation f
Res(f) == [tag |-> "res", id |-> f]
\* the exception object raised by fetch_func invocation f
Exc(f) == [tag |-> "exc", id |-> f]
\* the KeyError raised by `self._events[key]` in the leader of invocation f
KeyErr(f) == [tag |-> "keyerror", id |-> f]
Rejected503 == [tag |-> "http503", id |-> 0]
Internal500 == [tag |-> "http500", id |-> 0]
CancelledErr == [tag |-> "cancelled", id |-> 0]

(* --------------------------- dictionaries ----------------------------- *)
Put(d, k, v) == [x \in (DOMAIN d) \cup {k} |-> IF x = k THEN v ELSE d[x]]
Pop(d, k) == [x \in (DOMAIN d) \ {k} |-> d[x]]
Get(d, k, default) == IF k \in DOMAIN d THEN d[k] ELSE default
EmptyDict == [x \in {} |-> 0]

VARIABLES
    now,            \* the clock, in seconds
    cache,          \* the response cache: CacheKey -> [val, at, exp, by]
    events,         \* RequestCoalescer._events: key -> event object (an id)
    evset,          \* the event objects that are set
    nextEvent,      \* number of event objects created
    results,        \* RequestCoalescer._results
    waiter_counts,  \* RequestCoalescer._waiter_counts (a defaultdict(int))
    locks,          \* keys of RequestCoalescer._locks (a defaultdict(Lock))
    fetches,        \* the fetch_func invocations: <<[key, raw, status, at]>>
    pc,             \* request -> "idle" | "fetching" | "waiting" | "done"
    req,            \* request -> its raw coordinates
    waitOn,         \* request -> the event object it waits on (0: none)
    outcome,        \* request -> what coalesce (or the cache) gave it
    via,            \* request -> "cache" | "leader" | "waiter" | "stale" | ...
    led,            \* request -> the invocation it made (0: none)
    attached,       \* request -> the invocation in flight when it attached
    arrival,        \* request -> what it found on arrival (history)
    lastDone,       \* key -> the invocation that completed last (history)
    cancelSeen,     \* keys on which a waiter was cancelled (history)
    rejectSeen,     \* keys on which a request was rejected (history)
    rpc,            \* OpenMeteoClient.get_current_weather: "idle" |
                    \* "attempting" | "sleeping" | "returned" | "raised"
    attempt,        \* tenacity's attempt_number of the call
    tries,          \* what the transport did in each attempt so far
    raised,         \* the exception the call raised to its caller
    delay,          \* the wait before the next attempt, in milliseconds
    given,          \* two coordinate pairs handed to the key computation
    keyed,          \* their keys, once computed (<<>> before)
    upstream,       \* data.current handed to _normalize_response
    normalized,     \* the WeatherResponse it built (<<>> before)
    query,          \* the query parameters lat, latitude, lon, longitude
    answer,         \* what the route did with them (<<>> before)
    store,          \* LRUInMemoryBackend._store, in the OrderedDict's order
    lastUse,        \* key in the store -> number of its latest access (history)
    clock,          \* number of calls made on the backend
    lastOp,         \* the latest call on the backend and what it did (history)
    deadline,       \* key in the store -> when the expire of its set is over (history)
    max_size,       \* LRUInMemoryBackend.max_size
    running,        \* the request the event loop is running (0: none)
    lockOf,         \* key in RequestCoalescer._locks -> its Lock object (an id)
    holds,          \* request -> the Lock objects it holds
    nextLock,       \* number of Lock objects created
    depth,          \* request -> number of recursive coalesce calls it made
    bare            \* the writes made without the key's lock (history)

\* the coalescer's dictionaries and event objects
coalescer == <<events, evset, nextEvent, results, waiter_counts, locks>>

\* the route, its cache, the coalescer and the requests
service == <<now, cache, events, evset, nextEvent, results, waiter_counts,
             locks, fetches, pc, req, waitOn, outcome, via, led, attached,
             arrival, lastDone, cancelSeen, rejectSeen>>

\* one call of the Open-Meteo client under its retry decorator
client == <<rpc, attempt, tries, raised, delay>>

\* the computation of the key of two coordinate pairs
keying == <<given, keyed>>

\* one LRUInMemoryBackend and the calls made on it
backend == <<store, lastUse, clock, lastOp, deadline, max_size>>

\* the normalization of one upstream answer
normalizing == <<upstream, normalized>>

\* the route's treatment of the query parameters of one request
validating == <<query, answer>>

\* the computations made on given inputs
pure == <<keying, normalizing, validating>>

\* the event loop and the Lock objects, for coalesce run statement by statement
tasks == <<running, lockOf, holds, nextLock, depth, bare>>

vars == <<service, client, pure, backend, tasks>>

(* ----------------------- state of the program ------------------------- *)
NoRaw == <<0, 0>>
NoArrival == [live |-> FALSE, expired |-> FALSE, idle |-> FALSE,
              lastFailed |-> FALSE]

\* RequestCoalescer.__init__, FastAPICache.init(InMemoryBackend()), no request yet
InitService ==
    /\ now = 0
    /\ cache = EmptyDict
    /\ events = EmptyDict
    /\ evset = {}
    /\ nextEvent = 0
    /\ results = EmptyDict
    /\ waiter_counts = EmptyDict
    /\ locks = {}
    /\ fetches = <<>>
    /\ pc = [r \in Requests |-> "idle"]
    /\ req = [r \in Requests |-> NoRaw]
    /\ waitOn = [r \in Requests |-> 0]
    /\ outcome = [r \in Requests |-> NoValue]
    /\ via = [r \in Requests |-> "none"]
    /\ led = [r \in Requests |-> 0]
    /\ attached = [r \in Requests |-> 0]
    /\ arrival = [r \in Requests |-> NoArrival]
    /\ lastDone = [k \in Keys |-> 0]
    /\ cancelSeen = {}
    /\ rejectSeen = {}

NoExc == [cls |-> "none", attempt |-> 0]

\* no call of the client has started
InitClient ==
    /\ rpc = "idle"
    /\ attempt = 0
    /\ tries = <<>>
    /\ raised = NoExc
    /\ delay = 0

\* no key has been computed
InitKeying ==
    /\ given = <<NoRaw, NoRaw>>
    /\ keyed = <<>>

\* an optional number: <<>> is JSON null or Python None, <<n>> the number n
Null == <<>>
Num(n) == <<n>>

\* no upstream answer has been normalized
InitNormalizing ==
    /\ upstream = [temperature_2m |-> Null, wind_speed_10m |-> Null]
    /\ normalized = <<>>

\* no query has been looked at
InitValidating ==
    /\ query = [lat |-> Null, latitude |-> Null, lon |-> Null, longitude |-> Null]
    /\ answer = <<>>

\* had: the key was in the store when the call was made
NoOp == [op |-> "none", key |-> "", ret |-> 0, evicted |-> "", had |-> FALSE]

\* LRUInMemoryBackend.__init__: an empty OrderedDict, the largest max_size
InitBackend ==
    /\ store = <<>>
    /\ lastUse = EmptyDict
    /\ clock = 0
    /\ lastOp = NoOp
    /\ deadline = EmptyDict
    /\ max_size = MaxCapacity

\* no request is running, no Lock object exists
InitTasks ==
    /\ running = 0
    /\ lockOf = EmptyDict
    /\ holds = [r \in Requests |-> {}]
    /\ nextLock = 0
    /\ depth = [r \in Requests |-> 0]
    /\ bare = {}

Init ==
    /\ InitService /\ InitClient /\ InitBackend /\ InitTasks
    /\ InitKeying /\ InitNormalizing /\ InitValidating

KeyOf(r) == CoalesceKey(req[r])

\* the requests inside coalesce for key k
Active(k) == {r \in Requests : pc[r] \in {"fetching", "waiting"} /\ KeyOf(r) = k}
\* the fetch_func invocations for key k that have not completed
InFlight(k) == {f \in 1..Len(fetches) :
                   fetches[f].key = k /\ fetches[f].status = "inflight"}
\* the invocation whose leader created event object e (0: none)
OwnerOf(e) ==
    IF \E f \in 1..Len(fetches) : fetches[f].event = e
    THEN CHOOSE f \in 1..Len(fetches) : fetches[f].event = e
    ELSE 0

(* --------------------------- response cache --------------------------- *)
\* settings.CACHE_MAX_SIZE, at the smallest value the settings accept
CACHE_MAX_SIZE == 1

\* faulty variant: the decorator never finds an entry
CacheLiveNever(ck) == FALSE

\* InMemoryBackend: an entry is served until its expiry time has passed
CacheLive(ck) == ck \in DOMAIN cache /\ ~(cache[ck].exp < now)

\* the cache after a lookup of ck: an expired entry is dropped on read
CacheAfterGet(ck) ==
    IF ck \in DOMAIN cache /\ ~CacheLive(ck) THEN Pop(cache, ck) ELSE cache

\* @cache(expire=settings.CACHE_TTL): a returned response is stored, a raised
\* exception is not
CacheAfterReturn(c, ck, out, r) ==
    IF out.tag = "res"
    THEN Put(c, ck, [val |-> out, at |-> now, exp |-> now + CacheTTL, by |-> r])
    ELSE c

(* ----------------------------- coalescer ------------------------------ *)
\* `key in self._events`
HasEvent(k) == k \in DOMAIN events

\* faulty variant: the limit test is off by one (> for >=)
AtLimitOffByOne(k) == Get(waiter_counts, k, 0) > MaxWaiters

\* `self._waiter_counts[key] >= self._max_waiters`
AtLimit(k) == Get(waiter_counts, k, 0) >= MaxWaiters

\* faulty variant: the leader does not register its event
RegisterEventLost(k, e) == events

\* `self._events[key] = asyncio.Event()`, e the new event object
RegisterEvent(k, e) == Put(events, k, e)

\* reading self._waiter_counts[key] creates the entry (defaultdict(int))
CountsRead(k) == IF k \in DOMAIN waiter_counts THEN waiter_counts
                 ELSE Put(waiter_counts, k, 0)

\* faulty variant: a waiter is counted twice
CountsIncTwice(k) == Put(waiter_counts, k, Get(waiter_counts, k, 0) + 2)

\* `self._waiter_counts[key] += 1`
CountsInc(k) == Put(waiter_counts, k, Get(waiter_counts, k, 0) + 1)

\* faulty variant: a waiter turns a stored exception into the generic 500
WaitResultWrapped(k) ==
    LET v == Get(results, k, NoValue)
    IN  IF v.tag = "res" THEN v ELSE Internal500

\* `result = self._results.get(key)`, then raise it, raise the 500 or return it
WaitResult(k) ==
    LET v == Get(results, k, NoValue)
    IN  IF v.tag = "none" THEN Internal500 ELSE v

\* `if self._waiter_counts[key] == 0` of the finally block
LastWaiter(c) == c = 0

\* faulty variant: the finally block cleans up but never decrements
AfterFinallyNoDecrement(k, wc) ==
    LET c == Get(wc, k, 0) - 1
    IN  IF LastWaiter(c)
        THEN [events |-> Pop(events, k), results |-> Pop(results, k),
              waiter_counts |-> Pop(wc, k), locks |-> locks \ {k}]
        ELSE [events |-> events, results |-> results,
              waiter_counts |-> wc, locks |-> locks \cup {k}]

\* faulty variant: the last waiter empties the dictionaries of every key
AfterFinallyClearsAll(k, wc) ==
    LET c == Get(wc, k, 0) - 1
    IN  IF LastWaiter(c)
        THEN [events |-> EmptyDict, results |-> EmptyDict,
              waiter_counts |-> EmptyDict, locks |-> {}]
        ELSE [events |-> events, results |-> results,
              waiter_counts |-> Put(wc, k, c), locks |-> locks \cup {k}]

\* the finally block of the wait path, run on the counts wc
AfterFinally(k, wc) ==
    LET c == Get(wc, k, 0) - 1
    IN  IF LastWaiter(c)
        THEN [events |-> Pop(events, k), results |-> Pop(results, k),
              waiter_counts |-> Pop(wc, k), locks |-> locks \ {k}]
        ELSE [events |-> events, results |-> results,
              waiter_counts |-> Put(wc, k, c), locks |-> locks \cup {k}]

\* what a request records when it arrives (history only)
ArrivalOf(raw) ==
    LET k == CoalesceKey(raw)
        ck == CacheKey(raw)
    IN  [live |-> CacheLive(ck),
         expired |-> ck \in DOMAIN cache /\ ~CacheLive(ck),
         idle |-> Active(k) = {},
         lastFailed |-> IF lastDone[k] = 0 THEN FALSE
                        ELSE fetches[lastDone[k]].status = "err"]

CanArrive(r) == pc[r] = "idle" /\ (IF r = 1 THEN TRUE ELSE pc[r - 1] # "idle")

Arrived(r, raw) ==
    /\ req' = [req EXCEPT ![r] = raw]
    /\ arrival' = [arrival EXCEPT ![r] = ArrivalOf(raw)]

\* GET /v1/current on a live cache entry: the decorator answers
RequestHit(r, raw) ==
    /\ CanArrive(r)
    /\ CacheLive(CacheKey(raw))
    /\ Arrived(r, raw)
    /\ pc' = [pc EXCEPT ![r] = "done"]
    /\ outcome' = [outcome EXCEPT ![r] = cache[CacheKey(raw)].val]
    /\ via' = [via EXCEPT ![r] = "cache"]
    /\ UNCHANGED <<now, cache, coalescer, fetches, waitOn, led, attached,
                   lastDone, cancelSeen, rejectSeen>>
    /\ UNCHANGED <<client, pure, backend, tasks>>

\* cache miss, a fetch is registered and the waiter limit is reached: 503
RequestRejected(r, raw) ==
    LET k == CoalesceKey(raw) IN
    /\ CanArrive(r)
    /\ ~CacheLive(CacheKey(raw))
    /\ HasEvent(k)
    /\ AtLimit(k)
    /\ Arrived(r, raw)
    /\ cache' = CacheAfterGet(CacheKey(raw))
    /\ locks' = locks \cup {k}
    /\ waiter_counts' = CountsRead(k)
    /\ pc' = [pc EXCEPT ![r] = "done"]
    /\ outcome' = [outcome EXCEPT ![r] = Rejected503]
    /\ via' = [via EXCEPT ![r] = "rejected"]
    /\ rejectSeen' = rejectSeen \cup {k}
    /\ UNCHANGED <<now, events, evset, nextEvent, results, fetches, waitOn,
                   led, attached, lastDone, cancelSeen>>
    /\ UNCHANGED <<client, pure, backend, tasks>>

\* cache miss, a fetch is registered and its event is not set: wait for it
RequestWait(r, raw) ==
    LET k == CoalesceKey(raw) IN
    /\ CanArrive(r)
    /\ ~CacheLive(CacheKey(raw))
    /\ HasEvent(k)
    /\ ~AtLimit(k)
    /\ events[k] \notin evset
    /\ Arrived(r, raw)
    /\ cache' = CacheAfterGet(CacheKey(raw))
    /\ locks' = locks \cup {k}
    /\ waiter_counts' = CountsInc(k)
    /\ pc' = [pc EXCEPT ![r] = "waiting"]
    /\ waitOn' = [waitOn EXCEPT ![r] = events[k]]
    /\ attached' = [attached EXCEPT ![r] = OwnerOf(events[k])]
    /\ via' = [via EXCEPT ![r] = "waiter"]
    /\ UNCHANGED <<now, events, evset, nextEvent, results, fetches, outcome,
                   led, lastDone, cancelSeen, rejectSeen>>
    /\ UNCHANGED <<client, pure, backend, tasks>>

\* cache miss, the key is still registered and its event is already set:
\* wait() returns at once, the stored result is taken, the finally block runs
RequestStale(r, raw) ==
    LET k == CoalesceKey(raw)
        out == WaitResult(k)
        fin == AfterFinally(k, CountsInc(k))
    IN
    /\ CanArrive(r)
    /\ ~CacheLive(CacheKey(raw))
    /\ HasEvent(k)
    /\ ~AtLimit(k)
    /\ events[k] \in evset
    /\ Arrived(r, raw)
    /\ events' = fin.events
    /\ results' = fin.results
    /\ waiter_counts' = fin.waiter_counts
    /\ locks' = fin.locks
    /\ cache' = CacheAfterReturn(CacheAfterGet(CacheKey(raw)), CacheKey(raw), out, r)
    /\ pc' = [pc EXCEPT ![r] = "done"]
    /\ outcome' = [outcome EXCEPT ![r] = out]
    /\ via' = [via EXCEPT ![r] = "stale"]
    /\ UNCHANGED <<now, evset, nextEvent, fetches, waitOn, led, attached,
                   lastDone, cancelSeen, rejectSeen>>
    /\ UNCHANGED <<client, pure, backend, tasks>>

\* cache miss and the key is not registered: create the event, call fetch_func
RequestLead(r, raw) ==
    LET k == CoalesceKey(raw)
        f == Len(fetches) + 1
        e == nextEvent + 1
    IN
    /\ CanArrive(r)
    /\ ~CacheLive(CacheKey(raw))
    /\ ~HasEvent(k)
    /\ Arrived(r, raw)
    /\ cache' = CacheAfterGet(CacheKey(raw))
    /\ locks' = locks \cup {k}
    /\ events' = RegisterEvent(k, e)
    /\ nextEvent' = e
    /\ waiter_counts' = CountsRead(k)
    /\ IF Get(waiter_counts, k, 0) > 0
       THEN \* `return await self.coalesce(...)`: the request now waits on
            \* the event it created itself
            /\ pc' = [pc EXCEPT ![r] = "recursed"]
            /\ UNCHANGED <<fetches, led>>
       ELSE /\ pc' = [pc EXCEPT ![r] = "fetching"]
            /\ fetches' = Append(fetches, [key |-> k, raw |-> raw,
                                           status |-> "inflight", at |-> 0,
                                           event |-> e, leader |-> r,
                                           cls |-> "none"])
            /\ led' = [led EXCEPT ![r] = f]
    /\ via' = [via EXCEPT ![r] = "leader"]
    /\ UNCHANGED <<now, evset, results, waitOn, outcome, attached, lastDone,
                   cancelSeen, rejectSeen>>
    /\ UNCHANGED <<client, pure, backend, tasks>>

\* what the leader of invocation f gets when fetch_func returns (ok) or raises
LeaderOutcome(k, f, ok) ==
    IF ok THEN (IF HasEvent(k) THEN Res(f) ELSE KeyErr(f)) ELSE Exc(f)

\* faulty variant: the leader never sets the event
SetEventNever(k) == evset

\* `self._events[key].set()` in the leader, where the key is registered
SetEvent(k) == IF HasEvent(k) THEN evset \cup {events[k]} ELSE evset

\* the classes of the exceptions fetch_func raises: the four the client
\* raises itself, and "Exception" for anything else (a response that does not
\* parse or validate)
ErrClasses ==
    {"OpenMeteoTimeoutError", "OpenMeteoUpstreamError", "OpenMeteoClientError",
     "OpenMeteoNetworkError", "Exception"}

\* fetch_func of leader r completes, returning (res = "ok") or raising an
\* exception of class res: store the outcome, set the event, return
FetchEnds(r, res) ==
    LET k == KeyOf(r)
        f == led[r]
        ok == res = "ok"
        out == LeaderOutcome(k, f, ok)
    IN
    /\ pc[r] = "fetching"
    /\ results' = Put(results, k, out)
    /\ evset' = SetEvent(k)
    /\ fetches' = [fetches EXCEPT ![f].status = IF ok THEN "ok" ELSE "err",
                                  ![f].at = now,
                                  ![f].cls = IF ok THEN "none" ELSE res]
    /\ lastDone' = [lastDone EXCEPT ![k] = f]
    /\ cache' = CacheAfterReturn(cache, CacheKey(req[r]), out, r)
    /\ pc' = [pc EXCEPT ![r] = "done"]
    /\ outcome' = [outcome EXCEPT ![r] = out]
    /\ UNCHANGED <<now, events, nextEvent, waiter_counts, locks, req, waitOn,
                   via, led, attached, arrival, cancelSeen, rejectSeen>>
    /\ UNCHANGED <<client, pure, backend, tasks>>

\* fetch_func of leader r returns (ok) or raises; where the class of the
\* exception plays no part it is an upstream error
FetchReturn(r, ok) ==
    FetchEnds(r, IF ok THEN "ok" ELSE "OpenMeteoUpstreamError")

\* fetch_func of leader r raises an exception of class cls
FetchRaises(r, cls) == FetchEnds(r, cls)

\* a waiter whose event is set resumes: take the result, run the finally block
WaiterRun(r) ==
    LET k == KeyOf(r)
        out == WaitResult(k)
        fin == AfterFinally(k, waiter_counts)
    IN
    /\ pc[r] = "waiting"
    /\ waitOn[r] \in evset
    /\ events' = fin.events
    /\ results' = fin.results
    /\ waiter_counts' = fin.waiter_counts
    /\ locks' = fin.locks
    /\ cache' = CacheAfterReturn(cache, CacheKey(req[r]), out, r)
    /\ pc' = [pc EXCEPT ![r] = "done"]
    /\ outcome' = [outcome EXCEPT ![r] = out]
    /\ UNCHANGED <<now, evset, nextEvent, fetches, req, waitOn, via, led,
                   attached, arrival, lastDone, cancelSeen, rejectSeen>>
    /\ UNCHANGED <<client, pure, backend, tasks>>

\* a waiter is cancelled at its await: CancelledError, the finally block runs
CancelWaiter(r) ==
    LET k == KeyOf(r)
        fin == AfterFinally(k, waiter_counts)
    IN
    /\ pc[r] = "waiting"
    /\ events' = fin.events
    /\ results' = fin.results
    /\ waiter_counts' = fin.waiter_counts
    /\ locks' = fin.locks
    /\ pc' = [pc EXCEPT ![r] = "done"]
    /\ outcome' = [outcome EXCEPT ![r] = CancelledErr]
    /\ cancelSeen' = cancelSeen \cup {k}
    /\ UNCHANGED <<now, cache, evset, nextEvent, fetches, req, waitOn, via,
                   led, attached, arrival, lastDone, rejectSeen>>
    /\ UNCHANGED <<client, pure, backend, tasks>>

\* a second passes
Tick ==
    /\ now < MaxTime
    /\ now' = now + 1
    /\ UNCHANGED <<cache, coalescer, fetches, pc, req, waitOn, outcome, via,
                   led, attached, arrival, lastDone, cancelSeen, rejectSeen>>
    /\ UNCHANGED <<client, pure, backend, tasks>>

Next ==
    \/ \E r \in Requests, raw \in RawCoords : RequestHit(r, raw)
    \/ \E r \in Requests, raw \in RawCoords : RequestRejected(r, raw)
    \/ \E r \in Requests, raw \in RawCoords : RequestWait(r, raw)
    \/ \E r \in Requests, raw \in RawCoords : RequestStale(r, raw)
    \/ \E r \in Requests, raw \in RawCoords : RequestLead(r, raw)
    \/ \E r \in Requests, ok \in BOOLEAN : FetchReturn(r, ok)
    \/ \E r \in Requests : WaiterRun(r)
    \/ \E r \in Requests : CancelWaiter(r)
    \/ Tick

Spec == Init /\ [][Next]_vars

(* -------------------------- key computation --------------------------- *)
\* latitudes and longitudes around two neighbouring 4-decimal values, of both
\* signs, with every 5th decimal digit
LatSamples ==
    {sg * (b * 10 + d) : sg \in {-1, 1}, b \in {525200, 525201}, d \in 0..9}
LonSamples == {-1341004, 1341001, 1341006}
CoordSamples == LatSamples \X LonSamples

\* two calls of WeatherService.get_current_weather are about to be made
InitKey ==
    /\ InitService /\ InitClient /\ InitBackend /\ InitTasks
    /\ InitNormalizing /\ InitValidating
    /\ given \in CoordSamples \X CoordSamples
    /\ keyed = <<>>

\* rounded_lat, rounded_lon of both calls
ComputeKeys ==
    /\ keyed = <<>>
    /\ keyed' = <<CoalesceKey(given[1]), CoalesceKey(given[2])>>
    /\ UNCHANGED <<given, normalizing, validating, service, client, backend,
                   tasks>>

NextKey == ComputeKeys

SpecKey == InitKey /\ [][NextKey]_vars

(* ------------------------ _normalize_response ------------------------- *)
\* An upstream number is an integer count of thousandths, the decimal the
\* JSON carries; a rounded one is a count of tenths.  The decimals below 1
\* that lie halfway between two tenths, and those of them whose double (the
\* float the JSON number is parsed to) is smaller than the decimal itself;
\* 0.25 and 0.75 are doubles exactly.
HalfwayMags == {50, 150, 250, 350, 450, 550, 650, 750, 850, 950}
DoubleBelow == {150, 350, 850, 950}
DoubleExact == {250, 750}

\* the magnitudes and the numbers _normalize_response is given in the model
SampleMags == HalfwayMags \cup {0, 49, 51, 149, 151, 1200, 1234, 9765}
UpstreamNumbers == SampleMags \cup {-m : m \in SampleMags}
UpstreamValues == {Num(n) : n \in UpstreamNumbers} \cup {Null}

\* round(x, 1) of a non-negative x: the tenth nearest to the double x, the
\* even one when the double is exactly halfway
Round1Mag(a) ==
    LET q == a \div 100
        m == a % 100
    IN  IF m < 50 THEN q
        ELSE IF m > 50 THEN q + 1
        ELSE IF a \in DoubleExact THEN (IF q % 2 = 0 THEN q ELSE q + 1)
        ELSE IF a \in DoubleBelow THEN q
        ELSE q + 1

\* round(x, 1): round(-x, 1) = -round(x, 1)
Round1(x) == IF x >= 0 THEN Round1Mag(x) ELSE -Round1Mag(-x)

\* `round(v, 1) if v is not None else None`
RoundOrNone(v) == IF v = Null THEN Null ELSE Num(Round1(v[1]))

\* an upstream answer is about to be normalized
InitNorm ==
    /\ InitService /\ InitClient /\ InitBackend /\ InitTasks
    /\ InitKeying /\ InitValidating
    /\ upstream \in [temperature_2m : UpstreamValues, wind_speed_10m : UpstreamValues]
    /\ normalized = <<>>

\* _normalize_response(data, latitude, longitude)
NormalizeResponse ==
    /\ normalized = <<>>
    /\ normalized' = [temperatureC |-> RoundOrNone(upstream.temperature_2m),
                      windSpeedKmh |-> RoundOrNone(upstream.wind_speed_10m),
                      source |-> "open-meteo"]
    /\ UNCHANGED <<upstream, keying, validating, service, client, backend,
                   tasks>>

NextNorm == NormalizeResponse

SpecNorm == InitNorm /\ [][NextNorm]_vars

(* -------------------- _normalize_coordinate_params -------------------- *)
\* the values a query parameter takes in the model: absent, or a coordinate
\* in 1e-5 degrees, zero among them
ParamValues == {Null, Num(0), Num(5252000), Num(5252004)}

\* faulty variant: `if short and long`, which takes 0.0 for a missing value
PickTruthy(short, long) ==
    LET has(v) == v # Null /\ v # Num(0) IN
    IF has(short) /\ has(long)
    THEN IF short # long THEN [err |-> "conflicting", val |-> Null]
         ELSE [err |-> "", val |-> short]
    ELSE IF has(short) THEN [err |-> "", val |-> short]
    ELSE IF has(long) THEN [err |-> "", val |-> long]
    ELSE [err |-> "required", val |-> Null]

\* the if/elif chain for one coordinate given in its short and its long form
Pick(short, long) ==
    IF short # Null /\ long # Null
    THEN IF short # long THEN [err |-> "conflicting", val |-> Null]
         ELSE [err |-> "", val |-> short]
    ELSE IF short # Null THEN [err |-> "", val |-> short]
    ELSE IF long # Null THEN [err |-> "", val |-> long]
    ELSE [err |-> "required", val |-> Null]

\* _normalize_coordinate_params(lat, latitude, lon, longitude): the latitude
\* is settled first, and its HTTPException ends the call
NormalizeCoordinateParams(q) ==
    LET la == Pick(q.lat, q.latitude)
        lo == Pick(q.lon, q.longitude)
    IN  IF la.err # ""
        THEN [status |-> 400, detail |-> <<la.err, "latitude">>, coords |-> Null]
        ELSE IF lo.err # ""
        THEN [status |-> 400, detail |-> <<lo.err, "longitude">>, coords |-> Null]
        ELSE [status |-> 200, detail |-> <<>>, coords |-> <<la.val, lo.val>>]

\* a request with these query parameters has reached the route
InitParams ==
    /\ InitService /\ InitClient /\ InitBackend /\ InitTasks
    /\ InitKeying /\ InitNormalizing
    /\ query \in [lat : ParamValues, latitude : ParamValues,
                   lon : ParamValues, longitude : ParamValues]
    /\ answer = <<>>

\* the body of the route: the parameters are normalized, and only then is
\* weather_service.get_current_weather called, with what they gave
RouteBody ==
    LET n == NormalizeCoordinateParams(query) IN
    /\ answer = <<>>
    /\ answer' = [status |-> n.status, detail |-> n.detail, coords |-> n.coords,
                  service_called_with |-> n.coords]
    /\ UNCHANGED <<query, keying, normalizing, service, client, backend,
                   tasks>>

NextParams == RouteBody

SpecParams == InitParams /\ [][NextParams]_vars

(* ------------------------ LRUInMemoryBackend -------------------------- *)
\* the number of calls made on the backend
MaxOps == 5

LruKeys == {"a", "b", "c", "d"}
LruValues == {1, 2}
\* get returns None
None == 0

\* the keys of store s, and `key in self._store`
KeysOf(s) == {s[i].key : i \in 1..Len(s)}
Has(s, k) == k \in KeysOf(s)
\* the item of key k in store s; self._store[key] is its value
ItemOf(s, k) == s[CHOOSE i \in 1..Len(s) : s[i].key = k]
\* del self._store[key]
Without(s, k) == SelectSeq(s, LAMBDA e : e.key # k)
\* self._store.move_to_end(key)
MoveToEnd(s, k) == Append(Without(s, k), ItemOf(s, k))
\* self._store[key] = value: a present key keeps its place, a new one is last
Assign(s, k, v) ==
    IF Has(s, k)
    THEN [i \in 1..Len(s) |-> IF s[i].key = k THEN [key |-> k, value |-> v]
                                              ELSE s[i]]
    ELSE Append(s, [key |-> k, value |-> v])

\* faulty variant: get does not mark the key as recently used
StoreAfterGetUntouched(s, k) == s

\* the store after get(key)
StoreAfterGet(s, k) == IF Has(s, k) THEN MoveToEnd(s, k) ELSE s

\* the key set(key, ...) evicts: next(iter(self._store)), "" when none
EvictedBySet(s, k) ==
    IF ~Has(s, k) /\ Len(s) >= max_size THEN s[1].key ELSE ""

\* faulty variant: set never evicts
StoreAfterSetNoEvict(s, k, v) == MoveToEnd(Assign(s, k, v), k)

\* faulty variant: a key that is set again keeps its place in the order
StoreAfterSetInPlace(s, k, v) ==
    LET s1 == IF ~Has(s, k) /\ Len(s) >= max_size THEN Tail(s) ELSE s
    IN  Assign(s1, k, v)

\* the store after set(key, value, expire)
StoreAfterSet(s, k, v) ==
    LET s1 == IF ~Has(s, k) /\ Len(s) >= max_size THEN Tail(s) ELSE s
    IN  MoveToEnd(Assign(s1, k, v), k)

\* size(): len(self._store)
Size(s) == Len(s)

\* what get(key) returns on store s, without its effect on the order
Found(s, k) == IF Has(s, k) THEN ItemOf(s, k).value ELSE None

\* the uses recorded for the keys of store s
UsesOf(u, s) == [k \in KeysOf(s) |-> u[k]]

\* the seconds a set call may give as expire
Expires == {1, 2}

\* await backend.get(key)
LRUGet(k) ==
    /\ clock < MaxOps
    /\ clock' = clock + 1
    /\ store' = StoreAfterGet(store, k)
    /\ lastUse' = IF Has(store, k) THEN Put(lastUse, k, clock + 1) ELSE lastUse
    /\ lastOp' = [op |-> "get", key |-> k,
                  ret |-> IF Has(store, k) THEN ItemOf(store, k).value ELSE None,
                  evicted |-> "", had |-> Has(store, k)]
    /\ deadline' = UsesOf(deadline, store')
    /\ UNCHANGED <<max_size, service, client, pure, tasks>>

\* await backend.set(key, value, expire): expire is not used, the model only
\* notes when it will be over
LRUSetFor(k, v, expire) ==
    /\ clock < MaxOps
    /\ clock' = clock + 1
    /\ store' = StoreAfterSet(store, k, v)
    /\ lastUse' = UsesOf(Put(lastUse, k, clock + 1), store')
    /\ lastOp' = [op |-> "set", key |-> k, ret |-> None,
                  evicted |-> EvictedBySet(store, k), had |-> Has(store, k)]
    /\ deadline' = UsesOf(Put(deadline, k, now + expire), store')
    /\ UNCHANGED <<max_size, service, client, pure, tasks>>

\* await backend.set(key, value, settings.CACHE_TTL)
LRUSet(k, v) == LRUSetFor(k, v, CacheTTL)

\* await backend.delete(key)
LRUDelete(k) ==
    /\ clock < MaxOps
    /\ clock' = clock + 1
    /\ store' = IF Has(store, k) THEN Without(store, k) ELSE store
    /\ lastUse' = UsesOf(lastUse, store')
    /\ lastOp' = [op |-> "delete", key |-> k, ret |-> None, evicted |-> "",
                  had |-> Has(store, k)]
    /\ deadline' = UsesOf(deadline, store')
    /\ UNCHANGED <<max_size, service, client, pure, tasks>>

\* await backend.clear(key=k): `if key:` deletes that key; with no key, or
\* with the empty string, the whole store is cleared
LRUClear(k) ==
    /\ clock < MaxOps
    /\ clock' = clock + 1
    /\ store' = IF k # "" THEN (IF Has(store, k) THEN Without(store, k) ELSE store)
                ELSE <<>>
    /\ lastUse' = UsesOf(lastUse, store')
    /\ lastOp' = [op |-> "clear", key |-> k, ret |-> None, evicted |-> "",
                  had |-> Has(store, k)]
    /\ deadline' = UsesOf(deadline, store')
    /\ UNCHANGED <<max_size, service, client, pure, tasks>>

NextLRU ==
    \/ \E k \in LruKeys : LRUGet(k)
    \/ \E k \in LruKeys, v \in LruValues : LRUSet(k, v)
    \/ \E k \in LruKeys : LRUDelete(k)
    \/ \E k \in LruKeys \cup {""} : LRUClear(k)

\* LRUInMemoryBackend(max_size=m) for any m from 1 to the largest
InitLRU ==
    /\ InitService /\ InitClient /\ InitTasks
    /\ InitKeying /\ InitNormalizing /\ InitValidating
    /\ store = <<>>
    /\ lastUse = EmptyDict
    /\ clock = 0
    /\ lastOp = NoOp
    /\ deadline = EmptyDict
    /\ max_size \in 1..MaxCapacity

SpecLRU == InitLRU /\ [][NextLRU]_vars

\* a second passes for the backend
LruTick ==
    /\ now < MaxTime
    /\ now' = now + 1
    /\ UNCHANGED <<cache, coalescer, fetches, pc, req, waitOn, outcome, via,
                   led, attached, arrival, lastDone, cancelSeen, rejectSeen>>
    /\ UNCHANGED <<client, pure, backend, tasks>>

\* the backend over time: sets with an expire, gets, seconds passing
NextLRUTime ==
    \/ \E k \in LruKeys : LRUGet(k)
    \/ \E k \in LruKeys, v \in LruValues, e \in Expires : LRUSetFor(k, v, e)
    \/ LruTick

SpecLRUTime == Init /\ [][NextLRUTime]_vars

(* --------------------------- requests on two keys --------------------- *)
\* the service within one lifetime of the cached responses, with requests
\* for two different keys
NextTwo ==
    \/ \E r \in Requests, raw \in TwoKeyCoords : RequestHit(r, raw)
    \/ \E r \in Requests, raw \in TwoKeyCoords : RequestRejected(r, raw)
    \/ \E r \in Requests, raw \in TwoKeyCoords : RequestWait(r, raw)
    \/ \E r \in Requests, raw \in TwoKeyCoords : RequestStale(r, raw)
    \/ \E r \in Requests, raw \in TwoKeyCoords : RequestLead(r, raw)
    \/ \E r \in Requests, ok \in BOOLEAN : FetchReturn(r, ok)
    \/ \E r \in Requests : WaiterRun(r)
    \/ \E r \in Requests : CancelWaiter(r)

SpecTwo == Init /\ [][NextTwo]_vars

\* the event loop runs every task that is ready: a waiter whose event is set
\* resumes
SpecTwoFair == SpecTwo /\ \A r \in Requests : WF_vars(WaiterRun(r))

(* ------------------------ sequential requests ------------------------- *)
\* no request is in progress: each one is made after the one before it is over
Quiet == \A r \in Requests : pc[r] \in {"idle", "done"}

\* GET /v1/current made one after another, for coordinates of one key
NextSeq ==
    \/ \E r \in Requests, raw \in SameKeyCoords : Quiet /\ RequestHit(r, raw)
    \/ \E r \in Requests, raw \in SameKeyCoords : Quiet /\ RequestStale(r, raw)
    \/ \E r \in Requests, raw \in SameKeyCoords : Quiet /\ RequestLead(r, raw)
    \/ \E r \in Requests, ok \in BOOLEAN : FetchReturn(r, ok)
    \/ Tick

SpecSeq == Init /\ [][NextSeq]_vars

(* ------------------- WeatherService error mapping -------------------- *)
\* the constant details of the HTTPExceptions of weather.py
GatewayTimeoutDetail == "Gateway timeout - upstream API did not respond in time"
BadGatewayDetail == "Bad gateway - upstream API error"
UnavailableDetail == "Service temporarily unavailable - too many concurrent requests"
InternalDetail == "Internal server error"

\* str(e) of an exception raised below the service
ExceptionText == "text of the underlying exception"

HTTPException(status, detail) ==
    [type |-> "HTTPException", status |-> status, detail |-> detail]

\* faulty variant: a timeout is reported as a bad gateway
MapExceptionNoTimeout(cls) ==
    IF cls \in {"OpenMeteoTimeoutError", "OpenMeteoUpstreamError",
                "OpenMeteoClientError", "OpenMeteoNetworkError", "OpenMeteoError"}
    THEN HTTPException(502, BadGatewayDetail)
    ELSE HTTPException(500, InternalDetail)

\* faulty variant: the last handler puts str(e) in the detail
MapExceptionLeaky(cls) ==
    IF cls = "OpenMeteoTimeoutError"
    THEN HTTPException(504, GatewayTimeoutDetail)
    ELSE IF cls \in {"OpenMeteoUpstreamError", "OpenMeteoClientError",
                     "OpenMeteoNetworkError", "OpenMeteoError"}
    THEN HTTPException(502, BadGatewayDetail)
    ELSE HTTPException(500, ExceptionText)

\* the except clauses of WeatherService.get_current_weather, in their order,
\* on an exception of class cls that is not an HTTPException
MapException(cls) ==
    IF cls = "OpenMeteoTimeoutError"
    THEN HTTPException(504, GatewayTimeoutDetail)
    ELSE IF cls = "OpenMeteoUpstreamError"
    THEN HTTPException(502, BadGatewayDetail)
    ELSE IF cls \in {"OpenMeteoClientError", "OpenMeteoNetworkError"}
    THEN HTTPException(502, BadGatewayDetail)
    ELSE IF cls = "OpenMeteoError"
    THEN HTTPException(502, BadGatewayDetail)
    ELSE HTTPException(500, InternalDetail)

\* the class of the exception object out that coalesce raised
ClassOf(out) ==
    IF out.tag = "exc" THEN fetches[out.id].cls
    ELSE IF out.tag = "keyerror" THEN "KeyError"
    ELSE IF out.tag \in {"http503", "http500"} THEN "HTTPException"
    ELSE IF out.tag = "cancelled" THEN "CancelledError"
    ELSE "none"

\* what WeatherService.get_current_weather gives the caller of request r once
\* coalesce has returned or raised: the response, the coalescer's own
\* HTTPException re-raised as it is, the mapped HTTPException, or the
\* CancelledError, which `except Exception` does not catch
ServiceResult(r) ==
    LET out == outcome[r] IN
    IF out.tag = "res"
    THEN [type |-> "WeatherResponse", status |-> 200, detail |-> ""]
    ELSE IF out.tag = "http503" THEN HTTPException(503, UnavailableDetail)
    ELSE IF out.tag = "http500" THEN HTTPException(500, InternalDetail)
    ELSE IF out.tag = "cancelled"
    THEN [type |-> "CancelledError", status |-> 0, detail |-> ""]
    ELSE MapException(ClassOf(out))

\* the service within one lifetime of the cached responses, with every class
\* of exception fetch_func can raise
NextMap ==
    \/ \E r \in Requests, raw \in RawCoords : RequestHit(r, raw)
    \/ \E r \in Requests, raw \in RawCoords : RequestRejected(r, raw)
    \/ \E r \in Requests, raw \in RawCoords : RequestWait(r, raw)
    \/ \E r \in Requests, raw \in RawCoords : RequestStale(r, raw)
    \/ \E r \in Requests, raw \in RawCoords : RequestLead(r, raw)
    \/ \E r \in Requests : FetchReturn(r, TRUE)
    \/ \E r \in Requests, cls \in ErrClasses : FetchRaises(r, cls)
    \/ \E r \in Requests : WaiterRun(r)
    \/ \E r \in Requests : CancelWaiter(r)

SpecMap == Init /\ [][NextMap]_vars

TypeOK ==
    /\ now \in 0..MaxTime
    /\ DOMAIN events \subseteq Keys
    /\ DOMAIN results \subseteq Keys
    /\ DOMAIN waiter_counts \subseteq Keys
    /\ locks \subseteq Keys
    /\ \A r \in Requests : pc[r] \in {"idle", "fetching", "waiting", "done", "recursed"}

(* ----------------------- Open-Meteo client ---------------------------- *)
\* settings.RETRY_COUNT, settings.RETRY_DELAY (ms), RETRY_BACKOFF_MULTIPLIER
RETRY_COUNT == 3
RETRY_DELAY == 100
RETRY_BACKOFF_MULTIPLIER == 2

\* HTTP statuses the upstream answers with in the model
StatusCodes == {200, 399, 400, 404, 499, 500, 503}

\* what one `await self._client.get(...)` does: a response with a status, or
\* an httpx exception (ConnectError with a DNS message or another message)
Transport ==
    [kind : {"status"}, code : StatusCodes]
    \cup [kind : {"timeout", "connect_dns", "connect_refused", "http_other"},
          code : {0}]

\* the jitter of wait_random(0, 1), in milliseconds
Jitter == {0, 500, 1000}

\* faulty variant: the two status tests are swapped, so 500 and above is
\* reported as a client error
ClassifyClientFirst(t) ==
    IF t.kind = "status"
    THEN IF t.code >= 400 THEN "OpenMeteoClientError"
         ELSE "none"
    ELSE IF t.kind = "timeout" THEN "OpenMeteoTimeoutError"
    ELSE "OpenMeteoNetworkError"

\* the body of get_current_weather on transport outcome t: the class of the
\* exception it raises, "none" when it returns the normalized response
Classify(t) ==
    IF t.kind = "status"
    THEN IF t.code >= 500 THEN "OpenMeteoUpstreamError"
         ELSE IF t.code >= 400 THEN "OpenMeteoClientError"
         ELSE "none"
    ELSE IF t.kind = "timeout" THEN "OpenMeteoTimeoutError"
    ELSE "OpenMeteoNetworkError"

\* faulty variant: only 5xx answers are retried
ShouldRetryUpstreamOnly(cls) == cls = "OpenMeteoUpstreamError"

\* faulty variant: every raised error is retried
ShouldRetryAlways(cls) == cls # "none"

\* _should_retry: isinstance(exception, (OpenMeteoTimeoutError,
\* OpenMeteoUpstreamError, httpx.ConnectError))
ShouldRetry(cls) ==
    cls \in {"OpenMeteoTimeoutError", "OpenMeteoUpstreamError", "httpx.ConnectError"}

\* faulty variant: one attempt too many
StopAfterAttemptLate(n) == n >= RETRY_COUNT + 2

\* stop_after_attempt(settings.RETRY_COUNT + 1)
StopAfterAttempt(n) == n >= RETRY_COUNT + 1

\* faulty variant: reraise=False, the library's RetryError wraps the outcome
ReraiseWrapped(cls, n) == [cls |-> "RetryError", attempt |-> n]

\* reraise=True: what the call raises when no further attempt is made is the
\* exception object raised by attempt n itself
Reraise(cls, n) == [cls |-> cls, attempt |-> n]

RECURSIVE Pow(_, _)
Pow(b, n) == IF n = 0 THEN 1 ELSE b * Pow(b, n - 1)

Max(a, b) == IF a >= b THEN a ELSE b

\* wait_exponential(min=RETRY_DELAY / 1000, multiplier=RETRY_BACKOFF_MULTIPLIER)
\* after attempt n, in milliseconds: max(min, multiplier * 2 ** (n - 1)) seconds
WaitExponential(n) == Max(RETRY_DELAY, 1000 * RETRY_BACKOFF_MULTIPLIER * Pow(2, n - 1))

\* `async with OpenMeteoClient() as client: await client.get_current_weather(..)`
ClientCall ==
    /\ rpc = "idle"
    /\ rpc' = "attempting"
    /\ attempt' = 1
    /\ UNCHANGED <<tries, raised, delay>>
    /\ UNCHANGED <<service, pure, backend, tasks>>

\* one attempt under @retry(..., reraise=True): the body runs on transport
\* outcome t; then return, raise, or sleep before the next attempt
Attempt(t, j) ==
    LET cls == Classify(t) IN
    /\ rpc = "attempting"
    /\ tries' = Append(tries, t)
    /\ IF cls = "none"
       THEN /\ rpc' = "returned"
            /\ UNCHANGED <<raised, delay>>
       ELSE IF ~ShouldRetry(cls) \/ StopAfterAttempt(attempt)
       THEN /\ rpc' = "raised"
            /\ raised' = Reraise(cls, attempt)
            /\ UNCHANGED delay
       ELSE /\ rpc' = "sleeping"
            /\ delay' = WaitExponential(attempt) + j
            /\ UNCHANGED raised
    /\ UNCHANGED attempt
    /\ UNCHANGED <<service, pure, backend, tasks>>

\* the sleep is over: the next attempt starts
NextAttempt ==
    /\ rpc = "sleeping"
    /\ rpc' = "attempting"
    /\ attempt' = attempt + 1
    /\ UNCHANGED <<tries, raised, delay>>
    /\ UNCHANGED <<service, pure, backend, tasks>>

NextRetry ==
    \/ ClientCall
    \/ \E t \in Transport, j \in Jitter : Attempt(t, j)
    \/ NextAttempt

SpecRetry == Init /\ [][NextRetry]_vars

\* every await of the call completes: the transport answers or fails, the
\* sleep between two attempts ends
SpecRetryFair == SpecRetry /\ WF_vars(NextRetry)

\* the transport outcome of the attempt made in this step
Attempted(t) == rpc = "attempting" /\ tries' = Append(tries, t)

\* C10, the decision: an attempt that ends in a timeout or in a status of 500
\* or more, made when fewer than RETRY_COUNT+1 attempts have been made, raises
\* nothing to the caller: the call goes to sleep for the next attempt.
C10_RetryStep ==
    \A t \in Transport :
        ( /\ Attempted(t)
          /\ t.kind = "timeout" \/ (t.kind = "status" /\ t.code >= 500)
          /\ attempt < RETRY_COUNT + 1 )
        => rpc' = "sleeping" /\ raised' = NoExc

\* C10, the next attempt: the only step of a sleeping call is the next attempt.
C10_SleepStep ==
    rpc = "sleeping" => (rpc' = "attempting" /\ attempt' = attempt + 1)

\* C10: after an attempt that ends in a timeout or in an HTTP status of 500
\* or more, get_current_weather makes another attempt as long as fewer than
\* RETRY_COUNT+1 attempts have been made in the call.
C10_RetriesTransient == [][C10_RetryStep /\ C10_SleepStep]_vars

C10_Witness ==
    /\ rpc = "attempting"
    /\ attempt = RETRY_COUNT + 1
    /\ Len(tries) = RETRY_COUNT
    /\ \E i \in 1..Len(tries) : tries[i].kind = "timeout"
    /\ \E i \in 1..Len(tries) : tries[i].kind = "status" /\ tries[i].code = 503

\* the transport outcome of the latest attempt
LastTry == tries[Len(tries)]

\* the call is over: it returned the response or raised to its caller
CallOver == rpc \in {"returned", "raised"}

\* C11: after an attempt that fails with connection refused (a connect error
\* that is not a DNS failure), get_current_weather makes another attempt as
\* long as fewer than RETRY_COUNT+1 attempts have been made: a call that
\* raised on a refused connection had made all RETRY_COUNT+1 attempts.
C11_RetriesRefused ==
    (rpc = "raised" /\ LastTry.kind = "connect_refused")
        => Len(tries) = RETRY_COUNT + 1

\* C12, the decision: an attempt ending in a status from 400 to 499, in a
\* DNS failure or in a transport failure that is neither a timeout nor a
\* refused connection ends the call, which raises that attempt's own error.
NotRetried(t) ==
    \/ t.kind = "status" /\ t.code >= 400 /\ t.code <= 499
    \/ t.kind = "connect_dns"
    \/ t.kind = "http_other"

C12_RaiseStep ==
    \A t \in Transport :
        (Attempted(t) /\ NotRetried(t))
        => /\ rpc' = "raised"
           /\ raised' = [cls |-> Classify(t), attempt |-> attempt]
           /\ raised'.cls = (IF t.kind = "status" THEN "OpenMeteoClientError"
                                                  ELSE "OpenMeteoNetworkError")

\* C12, no further attempt: a call that raised or returned takes no step.
C12_OverStep == CallOver => UNCHANGED client

\* C12: after an attempt that ends in an HTTP status from 400 to 499, in a
\* DNS resolution failure, or in a transport failure other than a timeout or
\* a refused connection, the call makes no further attempt and raises that
\* attempt's error.
C12_NoRetryPermanent == [][C12_RaiseStep /\ C12_OverStep]_vars

C12_Witness ==
    /\ rpc = "raised"
    /\ Len(tries) = 2
    /\ tries[1].kind = "timeout"
    /\ LastTry.kind = "connect_dns"
    /\ raised = [cls |-> "OpenMeteoNetworkError", attempt |-> 2]

\* C13, the count: never more than RETRY_COUNT+1 attempts, none after one
\* that succeeded, and all RETRY_COUNT+1 of them when every attempt got 503.
C13_Count ==
    /\ Len(tries) <= RETRY_COUNT + 1
    /\ attempt <= RETRY_COUNT + 1
    /\ \A i \in 1..Len(tries) : Classify(tries[i]) = "none" => i = Len(tries)
    /\ (Len(tries) > 0 /\ Classify(LastTry) = "none") => rpc = "returned"
    /\ ( /\ CallOver
         /\ \A i \in 1..Len(tries) :
                tries[i].kind = "status" /\ tries[i].code = 503 )
       => Len(tries) = RETRY_COUNT + 1

\* C13: one call makes at most RETRY_COUNT+1 upstream attempts, makes no
\* attempt after one that succeeds, makes exactly RETRY_COUNT+1 attempts when
\* every attempt returns HTTP 503, and always terminates once each attempt
\* terminates.
C13_BoundedAttempts == []C13_Count /\ <>CallOver

C13_Witness ==
    /\ rpc = "raised"
    /\ Len(tries) = RETRY_COUNT + 1
    /\ \A i \in 1..Len(tries) : tries[i].kind = "status" /\ tries[i].code = 503

\* C14: when all RETRY_COUNT+1 attempts of a call fail with retryable errors,
\* the call raises the classified error of the last attempt itself: not a
\* wrapper around it and not the error of an earlier attempt.
C14_LastErrorRaised ==
    ( /\ CallOver
      /\ Len(tries) = RETRY_COUNT + 1
      /\ \A i \in 1..Len(tries) : ShouldRetry(Classify(tries[i])) )
    => /\ rpc = "raised"
       /\ raised = [cls |-> Classify(LastTry), attempt |-> RETRY_COUNT + 1]

C14_Witness ==
    /\ rpc = "raised"
    /\ Len(tries) = RETRY_COUNT + 1
    /\ \A i \in 1..RETRY_COUNT : tries[i].kind = "status" /\ tries[i].code = 503
    /\ LastTry.kind = "timeout"
    /\ raised = [cls |-> "OpenMeteoTimeoutError", attempt |-> RETRY_COUNT + 1]

(* ------------------------------ claims -------------------------------- *)
\* request r is over with a failure: coalesce raised something to it that is
\* not its own cancellation
Failed(r) == pc[r] = "done" /\ outcome[r].tag \notin {"res", "cancelled"}

\* the status the claim gives an exception of class cls
StatusFor(cls) ==
    IF cls = "OpenMeteoTimeoutError" THEN 504
    ELSE IF cls \in {"OpenMeteoUpstreamError", "OpenMeteoClientError",
                     "OpenMeteoNetworkError"} THEN 502
    ELSE 500

\* C15: WeatherService.get_current_weather maps the outcome of the coalesced
\* fetch, for the leader and for every waiter alike: OpenMeteoTimeoutError
\* gives 504; upstream, client and network errors give 502; the coalescer's
\* admission rejection gives 503; any other exception gives 500.
C15_FailureKinds ==
    \A r \in Requests :
        Failed(r) =>
            LET out == outcome[r]
                got == ServiceResult(r)
            IN
            /\ out.tag = "exc" =>
                   /\ got.status = StatusFor(fetches[out.id].cls)
                   /\ got.status = ServiceResult(fetches[out.id].leader).status
            /\ out = Rejected503 => got.status = 503
            /\ out.tag \in {"keyerror", "http500"} => got.status = 500

C15_Witness ==
    \E f \in 1..Len(fetches), w \in Requests :
        /\ fetches[f].cls = "OpenMeteoTimeoutError"
        /\ w # fetches[f].leader
        /\ via[w] = "waiter"
        /\ outcome[w] = Exc(f)
        /\ outcome[fetches[f].leader] = Exc(f)
        /\ pc[w] = "done" /\ pc[fetches[f].leader] = "done"
        /\ ServiceResult(w).status = 504
        /\ \E x \in Requests : outcome[x] = Rejected503

\* C17: for sequential requests whose coordinates round to the same key (the
\* raw coordinates may differ beyond the 4th decimal), all made within
\* CACHE_TTL of the first request's successful fetch, only the first request
\* causes an upstream fetch and all of them return the retrievedAt of that
\* fetch.
C17_OneFetchPerWindow ==
    ( /\ Len(fetches) >= 1
      /\ fetches[1].status = "ok"
      /\ now - fetches[1].at < CacheTTL )
    => /\ Len(fetches) = 1
       /\ \A r \in Requests : pc[r] = "done" => outcome[r] = Res(1)

\* the location of the WeatherResponse object res: _normalize_response puts
\* in it the latitude and longitude its own fetch was called with
LocationOf(res) == fetches[res.id].raw

\* C18: every successful response carries in its location exactly the
\* latitude and longitude its own caller supplied, unrounded, whether the
\* request was the leader, a waiter, or served from a stored result; never
\* the coordinates of another request.
C18_OwnLocation ==
    \A r \in Requests :
        (pc[r] = "done" /\ outcome[r].tag = "res")
            => LocationOf(outcome[r]) = req[r]

\* the digits of coordinate x up to the 4th decimal place, with its sign
Digits4(x) == IF x >= 0 THEN x \div 10 ELSE -((-x) \div 10)

\* the digits of coordinate x after the 4th decimal place
Later(x) == IF x >= 0 THEN x % 10 ELSE (-x) % 10

\* pairs a and b agree in every digit up to the 4th decimal place
AgreeTo4(a, b) ==
    \A i \in 1..2 : Digits4(a[i]) = Digits4(b[i]) /\ (a[i] >= 0) = (b[i] >= 0)

\* the later digits of a and b lie on the same side of half a unit of the
\* 4th decimal place, in latitude and in longitude
SameSide(a, b) ==
    \A i \in 1..2 :
        \/ Later(a[i]) < 5 /\ Later(b[i]) < 5
        \/ Later(a[i]) > 5 /\ Later(b[i]) > 5

\* C19 as stated: any two coordinate pairs that agree in every digit up to
\* the 4th decimal place and differ only in later digits are given the same
\* key (round(latitude, 4), round(longitude, 4)).
C19_SameDigitsSameKey ==
    (keyed # <<>> /\ AgreeTo4(given[1], given[2])) => keyed[1] = keyed[2]

\* C19, amended: two coordinate pairs that agree in every digit up to the
\* 4th decimal place are given the same key when, in latitude and in
\* longitude, their later digits lie on the same side of half a unit of the
\* 4th decimal place; the key is the nearest 4-decimal value, not the
\* truncated one.
C19_SameSideSameKey ==
    (keyed # <<>> /\ AgreeTo4(given[1], given[2]) /\ SameSide(given[1], given[2]))
        => keyed[1] = keyed[2]

C19_Witness ==
    /\ keyed # <<>>
    /\ given[1] # given[2]
    /\ AgreeTo4(given[1], given[2])
    /\ SameSide(given[1], given[2])
    /\ Later(given[1][1]) > 5
    /\ given[1][1] < 0
    /\ keyed[1] = keyed[2]

\* the step is a set(k, ...) call on the backend
IsSet(k) == clock' = clock + 1 /\ lastOp'.op = "set" /\ lastOp'.key = k

\* C20, the step: a set of an absent key on a full backend removes exactly
\* one entry, the one whose latest access is the oldest, and leaves every
\* other entry its value; any other set removes nothing.
C20_SetStep ==
    \A k \in LruKeys :
        IsSet(k) =>
            IF ~Has(store, k) /\ Len(store) >= max_size
            THEN \E e \in KeysOf(store) :
                    /\ KeysOf(store') = (KeysOf(store) \ {e}) \cup {k}
                    /\ Len(store') = Len(store)
                    /\ \A o \in KeysOf(store) \ {e} :
                          /\ lastUse[e] < lastUse[o]
                          /\ ItemOf(store', o).value = ItemOf(store, o).value
            ELSE /\ KeysOf(store') = KeysOf(store) \cup {k}
                 /\ \A o \in KeysOf(store) \ {k} :
                       ItemOf(store', o).value = ItemOf(store, o).value

\* C20: when LRUInMemoryBackend.set inserts a key that is not present and
\* the backend already holds max_size entries, exactly one entry is removed,
\* the one whose latest access (a get that found it, or a set of it) is the
\* oldest, and every other entry keeps its value; a set that does not exceed
\* max_size removes nothing.
C20_EvictsLeastRecent == [][C20_SetStep]_vars

\* "a" was set first, read again, and survives the insertion that evicts "b"
C20_Witness ==
    /\ lastOp.op = "set" /\ lastOp.key = "c" /\ lastOp.evicted = "b"
    /\ KeysOf(store) = {"a", "c"}
    /\ clock = max_size + 2
    /\ lastUse["a"] = max_size + 1
    /\ lastUse["c"] = max_size + 2

\* C21: after any sequence of set, get, delete and clear calls on a backend
\* built with max_size of at least 1, size() is at most max_size and equals
\* the number of distinct keys that get would find.
C21_SizeBounded ==
    /\ Size(store) <= max_size
    /\ Size(store) = Cardinality({k \in LruKeys : Found(store, k) # None})

C21_Witness ==
    /\ max_size >= 1
    /\ Size(store) = max_size
    /\ lastOp.op = "set" /\ lastOp.evicted # ""
    /\ clock = MaxOps

\* C22: in the running application, as wired at startup, the response cache
\* never holds more than CACHE_MAX_SIZE entries.
C22_CacheBounded == Cardinality(DOMAIN cache) <= CACHE_MAX_SIZE

\* the constant details a failure may carry
FixedDetails ==
    {GatewayTimeoutDetail, BadGatewayDetail, UnavailableDetail, InternalDetail}

\* C16: every failure of WeatherService.get_current_weather reaches its
\* caller as an HTTPException whose status is 500, 502, 503 or 504 and whose
\* detail is one of the constant messages: no other exception type escapes,
\* and the detail never holds the text of the underlying exception.
C16_OnlyHTTPException ==
    \A r \in Requests :
        Failed(r) =>
            /\ ServiceResult(r).type = "HTTPException"
            /\ ServiceResult(r).status \in {500, 502, 503, 504}
            /\ ServiceResult(r).detail \in FixedDetails
            /\ ServiceResult(r).detail # ExceptionText

C16_Witness ==
    /\ \E r \in Requests :
          /\ Failed(r) /\ outcome[r].tag = "exc"
          /\ ClassOf(outcome[r]) = "Exception"
          /\ ServiceResult(r) = HTTPException(500, InternalDetail)
    /\ \E r \in Requests :
          /\ Failed(r) /\ outcome[r].tag = "keyerror"
          /\ ServiceResult(r) = HTTPException(500, InternalDetail)

\* the outcome of fetch_func invocation f: the object it returned or raised
FetchOutcome(f) ==
    IF fetches[f].status = "ok" THEN Res(f)
    ELSE IF fetches[f].status = "err" THEN Exc(f)
    ELSE NoValue

Waiting(k) == {r \in Requests : pc[r] = "waiting" /\ KeyOf(r) = k}
Finished(r) == pc[r] = "done" /\ outcome[r] # CancelledErr

\* request r arrives with coordinates raw in this step
Arrives(r, raw) == pc[r] = "idle" /\ pc'[r] # "idle" /\ req'[r] = raw

\* a fetch for k is in flight: the key is registered, its event is not set
FetchPending(k) == HasEvent(k) /\ events[k] \notin evset /\ InFlight(k) # {}

\* C1: on a key none of whose waiters has been cancelled, at most one
\* fetch_func invocation is in progress at any time, and every request that
\* waits was attached to that one invocation and made none of its own.
C1_SingleFlight ==
    \A k \in Keys : k \notin cancelSeen =>
        /\ Cardinality(InFlight(k)) <= 1
        /\ \A r \in Waiting(k) :
              /\ led[r] = 0
              /\ waitOn[r] \notin evset => InFlight(k) = {attached[r]}

C1_Witness ==
    \E k \in Keys :
        /\ k \notin cancelSeen
        /\ Cardinality(InFlight(k)) = 1
        /\ Cardinality(Waiting(k)) = MaxWaiters
        /\ k \in rejectSeen

\* C2: on a key none of whose waiters has been cancelled, the leader of an
\* invocation and every waiter attached to it finish with the object that
\* invocation returned or raised, the very same one.
C2_SameOutcome ==
    \A r \in Requests : (Finished(r) /\ KeyOf(r) \notin cancelSeen) =>
        /\ led[r] # 0 => outcome[r] = FetchOutcome(led[r])
        /\ attached[r] # 0 => outcome[r] = FetchOutcome(attached[r])

C2_Witness ==
    \E l \in Requests : \E w1 \in Requests : \E w2 \in Requests :
        /\ w1 # w2
        /\ KeyOf(l) \notin cancelSeen
        /\ Finished(l) /\ Finished(w1) /\ Finished(w2)
        /\ led[l] # 0
        /\ attached[w1] = led[l] /\ attached[w2] = led[l]
        /\ outcome[w1] = Exc(led[l]) /\ outcome[w2] = outcome[l]

\* C3, the rejection: a coalesce call that finds a fetch in flight and the
\* waiter count at max_waiters ends at once with the 503 and changes neither
\* the coalescer's dictionaries nor any other request nor the fetch.
C3_RejectionStep ==
    \A r \in Requests : \A raw \in AllCoords :
        LET k == CoalesceKey(raw) IN
        ( /\ Arrives(r, raw)
          /\ ~CacheLive(CacheKey(raw))
          /\ FetchPending(k)
          /\ Get(waiter_counts, k, 0) = MaxWaiters )
        => /\ pc'[r] = "done"
           /\ outcome'[r] = Rejected503
           /\ events' = events /\ evset' = evset /\ results' = results
           /\ waiter_counts' = waiter_counts
           /\ fetches' = fetches
           /\ \A o \in Requests \ {r} : pc'[o] = pc[o] /\ outcome'[o] = outcome[o]

\* C3, afterwards: on a key where a request was rejected (and no waiter was
\* cancelled), the leader and the admitted waiters finish with the leader's
\* outcome.
C3_AdmittedFinish ==
    \A r \in Requests :
        (Finished(r) /\ KeyOf(r) \in rejectSeen /\ KeyOf(r) \notin cancelSeen) =>
            /\ led[r] # 0 => outcome[r] = FetchOutcome(led[r])
            /\ attached[r] # 0 => outcome[r] = FetchOutcome(attached[r])

\* C3: the request that arrives when the waiter count equals max_waiters is
\* rejected at once and leaves the key's bookkeeping unchanged; the leader and
\* the waiters already admitted still finish with the leader's outcome.
C3_RejectAtLimit == [][C3_RejectionStep]_vars /\ []C3_AdmittedFinish

C3_Witness ==
    \E k \in rejectSeen \ cancelSeen :
        /\ Active(k) = {}
        /\ \E l \in Requests :
              /\ led[l] # 0 /\ Finished(l) /\ KeyOf(l) = k
              /\ Cardinality({w \in Requests : Finished(w) /\ attached[w] = led[l]
                                 /\ outcome[w] = outcome[l]}) = MaxWaiters
              /\ \E x \in Requests : outcome[x] = Rejected503 /\ x > l

\* C4: a request that misses the cache and arrives when every request of the
\* key's last, failed fetch has returned invokes fetch_func itself.
C4_RetryAfterFailure ==
    \A r \in Requests :
        (pc[r] # "idle" /\ ~arrival[r].live /\ arrival[r].idle
            /\ arrival[r].lastFailed) => led[r] # 0

\* C5: a request that found its cache entry expired and has returned had a
\* fetch made for it: its own, or the one in flight it attached to.
C5_ExpiredFetches ==
    \A r \in Requests :
        (Finished(r) /\ arrival[r].expired /\ outcome[r] # Rejected503) =>
            (led[r] # 0 \/ attached[r] # 0)

\* C6: a request that finds a cache entry younger than CACHE_TTL returns in
\* the same step with the response of the request that stored the entry, and
\* changes neither the coalescer nor the list of fetch_func invocations.
C6_HitStep ==
    \A r \in Requests : \A raw \in AllCoords :
        LET ck == CacheKey(raw) IN
        ( /\ Arrives(r, raw)
          /\ ck \in DOMAIN cache
          /\ (IF ck \in DOMAIN cache THEN now - cache[ck].at < CacheTTL ELSE FALSE) )
        => /\ pc'[r] = "done"
           /\ outcome'[r] = outcome[cache[ck].by]
           /\ outcome'[r].tag = "res"
           /\ led'[r] = 0 /\ attached'[r] = 0
           /\ fetches' = fetches
           /\ UNCHANGED coalescer

C6_CacheHit == [][C6_HitStep]_vars

C6_Witness ==
    \E r \in Requests :
        /\ pc[r] = "done" /\ arrival[r].live /\ outcome[r].tag = "res"
        /\ led[r] = 0 /\ attached[r] = 0
        /\ now - fetches[outcome[r].id].at = CacheTTL - 1

\* C7: on a key where a waiter was cancelled, still at most one invocation
\* is in flight, the leader finishes with the outcome of its own fetch and
\* every other waiter with that of the fetch it attached to.
C7_CancelHarmless ==
    \A k \in cancelSeen :
        /\ Cardinality(InFlight(k)) <= 1
        /\ \A r \in Requests : (Finished(r) /\ KeyOf(r) = k) =>
              /\ led[r] # 0 => outcome[r] = FetchOutcome(led[r])
              /\ attached[r] # 0 => outcome[r] = FetchOutcome(attached[r])

\* C8: a key for which a fetch has completed and no request is inside
\* coalesce has no entry in _events, _results, _waiter_counts or _locks.
C8_NoResidue ==
    \A k \in Keys : (lastDone[k] # 0 /\ Active(k) = {}) =>
        /\ k \notin DOMAIN events
        /\ k \notin DOMAIN results
        /\ k \notin DOMAIN waiter_counts
        /\ k \notin locks

\* C9: a waiter that has returned attached to an invocation that has
\* completed, and no request ever takes the 'Internal server error' branch.
C9_WaiterAfterFetch ==
    \A r \in Requests :
        /\ outcome[r] # Internal500
        /\ (Finished(r) /\ attached[r] # 0) =>
              fetches[attached[r]].status # "inflight"

\* the second half of C9 alone: the 'Internal server error' branch is dead
C9_NoInternalError == \A r \in Requests : outcome[r] # Internal500

\* the coalescer's bookkeeping of key k: event, stored result, count, lock
BookOf(k) ==
    [event |-> Get(events, k, 0), isset |-> Get(events, k, 0) \in evset,
     result |-> Get(results, k, NoValue),
     counted |-> k \in DOMAIN waiter_counts, count |-> Get(waiter_counts, k, 0),
     locked |-> k \in locks]

\* the step is a step of request r (its arrival or a later one)
StepOf(r) == pc'[r] # pc[r]

\* C23, bookkeeping: a step of a request on one key leaves the event, stored
\* result, waiter count and lock of every other key as they were.
C23_OtherKeyUntouched ==
    \A r \in Requests : \A k \in Keys :
        (StepOf(r) /\ k # CoalesceKey(req'[r])) => BookOf(k)' = BookOf(k)

\* C23, decisions: an arriving request is rejected only when its own key has
\* max_waiters waiters, waits only on an event of its own key, and leads when
\* its own key has no event, whatever the other key's state.
C23_OwnKeyDecides ==
    \A r \in Requests : \A raw \in TwoKeyCoords :
        LET k == CoalesceKey(raw) IN
        Arrives(r, raw) =>
            /\ via'[r] = "rejected" =>
                   (k \in DOMAIN events /\ Get(waiter_counts, k, 0) >= MaxWaiters)
            /\ pc'[r] = "waiting" =>
                   (k \in DOMAIN events /\ waitOn'[r] = events[k])
            /\ (k \notin DOMAIN events /\ via'[r] # "cache") =>
                   (via'[r] = "leader" /\ pc'[r] \in {"fetching", "recursed"})
            /\ ( /\ k \in DOMAIN events
                 /\ Get(waiter_counts, k, 0) < MaxWaiters
                 /\ via'[r] # "cache" )
               => via'[r] \in {"waiter", "stale"}

\* C23: a coalesce call on key A never waits on, takes a decision from, or
\* modifies the event, stored result, waiter count or lock of a different key
\* B: a fetch in flight on B, or B having max_waiters waiters, never delays
\* or rejects a request on A, and B's bookkeeping is unchanged by every step
\* of a request on A.
C23_KeysIndependent == [][C23_OtherKeyUntouched /\ C23_OwnKeyDecides]_vars

\* key B has a fetch in flight and max_waiters waiters; the request that came
\* last, on key A, leads its own fetch
C23_Witness ==
    \E a \in Keys, b \in Keys :
        /\ a # b
        /\ FetchPending(b)
        /\ Get(waiter_counts, b, 0) = MaxWaiters
        /\ \E r \in Requests :
              /\ KeyOf(r) = a /\ pc[r] = "fetching"
              /\ \A x \in Requests \ {r} : pc[x] # "idle" /\ x < r

\* the class the claim gives transport outcome t ("none": a normalized result)
ExpectedClass(t) ==
    CASE t.kind = "status" /\ t.code >= 500 -> "OpenMeteoUpstreamError"
      [] t.kind = "status" /\ t.code >= 400 /\ t.code <= 499 -> "OpenMeteoClientError"
      [] t.kind = "status" /\ t.code < 400 -> "none"
      [] t.kind = "timeout" -> "OpenMeteoTimeoutError"
      [] t.kind \in {"connect_refused", "connect_dns"} -> "OpenMeteoNetworkError"
      [] t.kind = "http_other" -> "OpenMeteoNetworkError"

\* C24: a single upstream attempt is classified as follows: status 500 or
\* more gives OpenMeteoUpstreamError; 400 to 499 gives OpenMeteoClientError;
\* a timeout gives OpenMeteoTimeoutError; connection refused, DNS failure and
\* any other transport failure give OpenMeteoNetworkError; only a status
\* below 400 yields a normalized result.
C24_Classification ==
    /\ \A i \in 1..Len(tries) : Classify(tries[i]) = ExpectedClass(tries[i])
    /\ rpc = "raised" => raised.cls = ExpectedClass(LastTry)
    /\ rpc = "returned" => (LastTry.kind = "status" /\ LastTry.code < 400)
    /\ rpc = "sleeping" => ExpectedClass(LastTry) # "none"

C24_Witness ==
    /\ rpc = "raised"
    /\ Len(tries) = 3
    /\ tries[1].kind = "timeout"
    /\ tries[2].kind = "status" /\ tries[2].code = 500
    /\ LastTry.kind = "status" /\ LastTry.code = 499
    /\ raised.cls = "OpenMeteoClientError"

\* the decimal x (thousandths) rounded to one decimal place, the even tenth
\* when x lies halfway between two tenths
HalfEven1(x) ==
    LET a == IF x >= 0 THEN x ELSE -x
        q == a \div 100
        m == a % 100
        t == IF m < 50 THEN q
             ELSE IF m > 50 THEN q + 1
             ELSE IF q % 2 = 0 THEN q ELSE q + 1
    IN  IF x >= 0 THEN t ELSE -t

\* C25: _normalize_response sets temperatureC and windSpeedKmh to the
\* upstream temperature_2m and wind_speed_10m rounded to one decimal place
\* with ties to even (1.234 gives 1.2, 9.765 gives 9.8), sets each of them to
\* null exactly when the corresponding upstream field is null, independently
\* of the other field, and source is always "open-meteo".
C25_RoundedHalfEven ==
    normalized # <<>> =>
        /\ normalized.temperatureC =
              (IF upstream.temperature_2m = Null THEN Null
               ELSE Num(HalfEven1(upstream.temperature_2m[1])))
        /\ normalized.windSpeedKmh =
              (IF upstream.wind_speed_10m = Null THEN Null
               ELSE Num(HalfEven1(upstream.wind_speed_10m[1])))
        /\ normalized.source = "open-meteo"

\* C25, what holds: each field is null exactly when its upstream field is,
\* a number is rounded to a tenth next to it (1.234 gives 1.2, 9.765 gives
\* 9.8), and source is "open-meteo".
C25_NearestAndNull ==
    normalized # <<>> =>
        /\ (normalized.temperatureC = Null) = (upstream.temperature_2m = Null)
        /\ (normalized.windSpeedKmh = Null) = (upstream.wind_speed_10m = Null)
        /\ upstream.temperature_2m # Null =>
              LET d == 100 * normalized.temperatureC[1] - upstream.temperature_2m[1]
              IN  d >= -50 /\ d <= 50
        /\ upstream.wind_speed_10m # Null =>
              LET d == 100 * normalized.windSpeedKmh[1] - upstream.wind_speed_10m[1]
              IN  d >= -50 /\ d <= 50
        /\ upstream.temperature_2m = Num(1234) => normalized.temperatureC = Num(12)
        /\ upstream.wind_speed_10m = Num(9765) => normalized.windSpeedKmh = Num(98)
        /\ normalized.source = "open-meteo"

\* C26: the wait before retry n of a call (n = 1 is the wait after the first
\* failed attempt) is RETRY_DELAY x RETRY_BACKOFF_MULTIPLIER^(n-1) plus an
\* additive random jitter: the non-jitter part of the first wait is the
\* configured base delay, that of each later wait the previous one times the
\* configured multiplier.
C26_BackoffFromBaseDelay ==
    rpc = "sleeping" =>
        \E j \in Jitter :
            delay = RETRY_DELAY * Pow(RETRY_BACKOFF_MULTIPLIER, attempt - 1) + j

\* both forms of a coordinate are given with different values, or none is
Conflicts(short, long) == short # Null /\ long # Null /\ short # long
Missing(short, long) == short = Null /\ long = Null

\* the value supplied for a coordinate: the short form when both are given
Supplied(short, long) == IF short # Null THEN short ELSE long

\* C27: _normalize_coordinate_params rejects the request with HTTP 400 when
\* both forms of a coordinate are given with different values and when
\* neither form of a coordinate is given; in every other case it returns the
\* supplied value of each coordinate (the short form when both are given and
\* equal), and no upstream fetch is made for a rejected request.
C27_ParamsNormalized ==
    answer # <<>> =>
        IF \/ Conflicts(query.lat, query.latitude) \/ Missing(query.lat, query.latitude)
           \/ Conflicts(query.lon, query.longitude) \/ Missing(query.lon, query.longitude)
        THEN /\ answer.status = 400
             /\ answer.service_called_with = Null
        ELSE /\ answer.status = 200
             /\ answer.coords = <<Supplied(query.lat, query.latitude),
                                  Supplied(query.lon, query.longitude)>>
             /\ answer.service_called_with = answer.coords

C27_Witness ==
    /\ answer # <<>>
    /\ answer.status = 200
    /\ query.lat = Num(0) /\ query.latitude = Num(0)
    /\ query.lon = Null /\ query.longitude = Num(5252004)
    /\ answer.coords = <<Num(0), Num(5252004)>>

\* C28: in every reachable state of the coalescer, for any interleaving of
\* requests (cancelled waiters included), the waiter count of every key is at
\* least 0 and at most max_waiters.
C28_CountInRange ==
    \A k \in DOMAIN waiter_counts :
        waiter_counts[k] >= 0 /\ waiter_counts[k] <= MaxWaiters

C28_Witness ==
    \E k \in DOMAIN waiter_counts :
        /\ waiter_counts[k] = MaxWaiters
        /\ k \in cancelSeen
        /\ FetchPending(k)

\* C29: in every reachable state, _waiter_counts[key] is the number of
\* requests that have attached to the key as waiters and have not yet run the
\* decrement of the wait path's finally block: each one incremented the count
\* once before waiting and decrements it once afterwards, on a return, on a
\* raised error and on cancellation.
C29_CountIsWaiters ==
    \A k \in Keys : Get(waiter_counts, k, 0) = Cardinality(Waiting(k))

C29_Witness ==
    \E k \in Keys :
        /\ Cardinality(Waiting(k)) = 1
        /\ Get(waiter_counts, k, 0) = 1
        /\ k \in cancelSeen
        /\ \E r \in Requests : KeyOf(r) = k /\ outcome[r] = CancelledErr
        /\ \E r \in Requests :
              KeyOf(r) = k /\ pc[r] = "done" /\ via[r] = "waiter"
                           /\ outcome[r].tag = "exc"

\* request r waits on a fetch whose fetch_func call has returned or raised
WaitsOnCompleted(r) ==
    /\ pc[r] = "waiting"
    /\ attached[r] > 0
    /\ fetches[attached[r]].status # "inflight"

\* request r is over with a stored result or a stored error, or was cancelled
Released(r) ==
    /\ pc[r] = "done"
    /\ outcome[r].tag \in {"res", "exc", "cancelled"}

\* C30, the wake-up: once the fetch a waiter was attached to has completed,
\* the event the waiter waits on is set.
C30_EventSet == \A r \in Requests : WaitsOnCompleted(r) => waitOn[r] \in evset

\* C30: if the leader's fetch_func call returns or raises an Exception, then,
\* under fair scheduling, every request attached as a waiter to that fetch
\* eventually returns the result or raises the error; no admitted waiter
\* waits forever.
C30_WaitersReleased ==
    /\ []C30_EventSet
    /\ \A r \in Requests : WaitsOnCompleted(r) ~> Released(r)

C30_Witness ==
    \E r \in Requests, w \in Requests :
        /\ r # w
        /\ WaitsOnCompleted(r)
        /\ attached[w] = attached[r]
        /\ Released(w) /\ outcome[w] = Exc(attached[r])

(* ------------- coalesce, one statement at a time ---------------------- *)
\* Here a request runs coalesce statement by statement.  pc is "L68",
\* "L70", ... when the request is about to run that line of weather.py; the
\* event loop runs one request at a time (running) and takes another one
\* only when the running one suspends.  The route's cache is left out: every
\* request misses it.

\* the recursive calls counted for one request
MaxDepth == 2

\* the three `async with self._locks[key]` of coalesce
AcquireAt == {"L68", "L108", "L119"}
\* the first statement inside each of them
Inside(p) == CASE p = "L68" -> "L70" [] p = "L108" -> "L109" [] OTHER -> "L121"

\* the Lock object number id, made for key k
LockObj(k, id) == [key |-> k, id |-> id]
\* request r holds the Lock object that self._locks has for key k
Holds(r, k) == k \in DOMAIN lockOf /\ LockObj(k, lockOf[k]) \in holds[r]
\* the Lock object that self._locks has for key k is held
Locked(k) == \E r \in Requests : Holds(r, k)

\* faulty variant: taking a lock always gives the event loop a turn first
AcquireSuspendsFirst(free, first) == first \/ ~free

\* `async with self._locks[key]`: acquire() suspends only when the Lock is
\* held (free: it is not; first: the request has just reached the statement)
AcquireSuspends(free, first) == ~free

\* faulty variant: leaving the `async with` block keeps the Lock
ReleaseNever(h, l) == h

\* leaving the `async with` block: the Lock object l is released
Release(h, l) == h \ {l}

\* the record of a write to dictionary d at line n
WriteAt(d, n) == [dict |-> d, line |-> n]

\* request r writes key k's entry of a dictionary: w is recorded if r does
\* not hold the key's lock
Written(b, r, k, w) == IF Holds(r, k) THEN b ELSE b \cup {w}

\* the route calls coalesce for request r
Enter(r, raw) ==
    /\ running = 0
    /\ CanArrive(r)
    /\ Arrived(r, raw)
    /\ pc' = [pc EXCEPT ![r] = "L68"]
    /\ running' = r
    /\ UNCHANGED <<now, cache, coalescer, fetches, waitOn, outcome, via, led,
                   attached, lastDone, cancelSeen, rejectSeen>>
    /\ UNCHANGED <<lockOf, holds, nextLock, depth, bare>>
    /\ UNCHANGED <<client, pure, backend>>

\* `async with self._locks[key]`: the defaultdict makes the Lock if the key
\* has none; the request takes it and goes on, or suspends until it is free
Acquire(r) ==
    LET k == KeyOf(r)
        made == k \notin DOMAIN lockOf
        id == IF made THEN nextLock + 1 ELSE lockOf[k]
        free == made \/ ~Locked(k)
    IN
    /\ pc[r] \in AcquireAt
    /\ running \in {0, r}
    /\ lockOf' = Put(lockOf, k, id)
    /\ locks' = locks \cup {k}
    /\ nextLock' = IF made THEN id ELSE nextLock
    /\ IF AcquireSuspends(free, running = r)
       THEN /\ running' = 0
            /\ UNCHANGED <<pc, holds>>
       ELSE /\ running' = r
            /\ pc' = [pc EXCEPT ![r] = Inside(pc[r])]
            /\ holds' = [holds EXCEPT ![r] = @ \cup {LockObj(k, id)}]
    /\ UNCHANGED <<now, cache, events, evset, nextEvent, results,
                   waiter_counts, fetches, req, waitOn, outcome, via, led,
                   attached, arrival, lastDone, cancelSeen, rejectSeen>>
    /\ UNCHANGED <<depth, bare>>
    /\ UNCHANGED <<client, pure, backend>>

\* lines 70-88, inside the first lock: a registered key is joined as a waiter
\* or, at the limit, refused with 503
FirstCheck(r) ==
    LET k == KeyOf(r) IN
    /\ pc[r] = "L70"
    /\ running = r
    /\ IF HasEvent(k)
       THEN IF AtLimit(k)
            THEN /\ waiter_counts' = CountsRead(k)
                 /\ bare' = bare
                 /\ pc' = [pc EXCEPT ![r] = "done"]
                 /\ outcome' = [outcome EXCEPT ![r] = Rejected503]
                 /\ via' = [via EXCEPT ![r] = "rejected"]
                 /\ rejectSeen' = rejectSeen \cup {k}
                 /\ running' = 0
            ELSE /\ waiter_counts' = CountsInc(k)
                 /\ bare' = Written(bare, r, k, WriteAt("_waiter_counts", 84))
                 /\ pc' = [pc EXCEPT ![r] = "L91"]
                 /\ via' = [via EXCEPT ![r] = "waiter"]
                 /\ running' = r
                 /\ UNCHANGED <<outcome, rejectSeen>>
       ELSE /\ pc' = [pc EXCEPT ![r] = "L91"]
            /\ running' = r
            /\ UNCHANGED <<waiter_counts, bare, outcome, via, rejectSeen>>
    /\ holds' = [holds EXCEPT ![r] = Release(@, LockObj(k, lockOf[k]))]
    /\ UNCHANGED <<now, cache, events, evset, nextEvent, results, locks,
                   fetches, req, waitOn, led, attached, arrival, lastDone,
                   cancelSeen>>
    /\ UNCHANGED <<lockOf, nextLock, depth>>
    /\ UNCHANGED <<client, pure, backend>>

\* line 91, outside the lock: with the key registered the request awaits the
\* event, which suspends it unless the event is already set; otherwise it
\* goes on to become the leader
WaitOrLead(r) ==
    LET k == KeyOf(r) IN
    /\ pc[r] = "L91"
    /\ running = r
    /\ IF HasEvent(k)
       THEN /\ waitOn' = [waitOn EXCEPT ![r] = events[k]]
            /\ attached' = [attached EXCEPT ![r] = OwnerOf(events[k])]
            /\ IF events[k] \in evset
               THEN /\ outcome' = [outcome EXCEPT ![r] = WaitResult(k)]
                    /\ pc' = [pc EXCEPT ![r] = "L108"]
                    /\ running' = r
               ELSE /\ pc' = [pc EXCEPT ![r] = "waiting"]
                    /\ running' = 0
                    /\ UNCHANGED outcome
       ELSE /\ pc' = [pc EXCEPT ![r] = "L119"]
            /\ running' = r
            /\ UNCHANGED <<waitOn, attached, outcome>>
    /\ UNCHANGED <<now, cache, coalescer, fetches, req, via, led, arrival,
                   lastDone, cancelSeen, rejectSeen>>
    /\ UNCHANGED <<lockOf, holds, nextLock, depth, bare>>
    /\ UNCHANGED <<client, pure, backend>>

\* lines 93-105: the event of a suspended waiter is set, the event loop
\* resumes it and it takes the stored result
Wake(r) ==
    LET k == KeyOf(r) IN
    /\ pc[r] = "waiting"
    /\ running = 0
    /\ waitOn[r] \in evset
    /\ outcome' = [outcome EXCEPT ![r] = WaitResult(k)]
    /\ pc' = [pc EXCEPT ![r] = "L108"]
    /\ running' = r
    /\ UNCHANGED <<now, cache, coalescer, fetches, req, waitOn, via, led,
                   attached, arrival, lastDone, cancelSeen, rejectSeen>>
    /\ UNCHANGED <<lockOf, holds, nextLock, depth, bare>>
    /\ UNCHANGED <<client, pure, backend>>

\* a suspended waiter is cancelled: CancelledError is raised at line 93 and
\* the finally block is entered
CancelWait(r) ==
    LET k == KeyOf(r) IN
    /\ pc[r] = "waiting"
    /\ running = 0
    /\ outcome' = [outcome EXCEPT ![r] = CancelledErr]
    /\ cancelSeen' = cancelSeen \cup {k}
    /\ pc' = [pc EXCEPT ![r] = "L108"]
    /\ running' = r
    /\ UNCHANGED <<now, cache, coalescer, fetches, req, waitOn, via, led,
                   attached, arrival, lastDone, rejectSeen>>
    /\ UNCHANGED <<lockOf, holds, nextLock, depth, bare>>
    /\ UNCHANGED <<client, pure, backend>>

\* lines 109-116, inside the lock of the finally block: decrement, clean up
\* as the last waiter, then leave coalesce with the result or the exception
Finally(r) ==
    LET k == KeyOf(r)
        fin == AfterFinally(k, waiter_counts)
    IN
    /\ pc[r] = "L109"
    /\ running = r
    /\ events' = fin.events
    /\ results' = fin.results
    /\ waiter_counts' = fin.waiter_counts
    /\ locks' = fin.locks
    /\ lockOf' = IF k \in fin.locks THEN lockOf ELSE Pop(lockOf, k)
    /\ bare' = Written(bare, r, k, WriteAt("_waiter_counts", 109))
    /\ holds' = [holds EXCEPT ![r] = Release(@, LockObj(k, lockOf[k]))]
    /\ pc' = [pc EXCEPT ![r] = "done"]
    /\ running' = 0
    /\ UNCHANGED <<now, cache, evset, nextEvent, fetches, req, waitOn,
                   outcome, via, led, attached, arrival, lastDone, cancelSeen,
                   rejectSeen>>
    /\ UNCHANGED <<nextLock, depth>>
    /\ UNCHANGED <<client, pure, backend>>

\* lines 121-127, inside the second lock: the double check
SecondCheck(r) ==
    LET k == KeyOf(r)
        e == nextEvent + 1
    IN
    /\ pc[r] = "L121"
    /\ running = r
    /\ IF HasEvent(k)
       THEN /\ waiter_counts' = CountsInc(k)
            /\ bare' = Written(bare, r, k, WriteAt("_waiter_counts", 123))
            /\ via' = [via EXCEPT ![r] = "recheck"]
            /\ UNCHANGED <<events, nextEvent>>
       ELSE /\ events' = RegisterEvent(k, e)
            /\ nextEvent' = e
            /\ bare' = Written(bare, r, k, WriteAt("_events", 127))
            /\ via' = [via EXCEPT ![r] = "leader"]
            /\ UNCHANGED waiter_counts
    /\ holds' = [holds EXCEPT ![r] = Release(@, LockObj(k, lockOf[k]))]
    /\ pc' = [pc EXCEPT ![r] = "L130"]
    /\ running' = r
    /\ UNCHANGED <<now, cache, evset, results, locks, fetches, req, waitOn,
                   outcome, led, attached, arrival, lastDone, cancelSeen,
                   rejectSeen>>
    /\ UNCHANGED <<lockOf, nextLock, depth>>
    /\ UNCHANGED <<client, pure, backend>>

\* lines 130-137, outside the lock: with waiters counted the request calls
\* coalesce again, otherwise it awaits fetch_func
LeadOrRecurse(r) ==
    LET k == KeyOf(r)
        f == Len(fetches) + 1
    IN
    /\ pc[r] = "L130"
    /\ running = r
    /\ waiter_counts' = CountsRead(k)
    /\ bare' = IF k \in DOMAIN waiter_counts THEN bare
               ELSE Written(bare, r, k, WriteAt("_waiter_counts", 130))
    /\ IF Get(waiter_counts, k, 0) > 0
       THEN /\ depth' = [depth EXCEPT ![r] = IF @ < MaxDepth THEN @ + 1 ELSE @]
            /\ pc' = [pc EXCEPT ![r] = "L68"]
            /\ running' = r
            /\ UNCHANGED <<fetches, led>>
       ELSE /\ pc' = [pc EXCEPT ![r] = "fetching"]
            /\ fetches' = Append(fetches, [key |-> k, raw |-> req[r],
                                           status |-> "inflight", at |-> 0,
                                           event |-> Get(events, k, 0),
                                           leader |-> r, cls |-> "none"])
            /\ led' = [led EXCEPT ![r] = f]
            /\ running' = 0
            /\ UNCHANGED depth
    /\ UNCHANGED <<now, cache, events, evset, nextEvent, results, locks, req,
                   waitOn, outcome, via, attached, arrival, lastDone,
                   cancelSeen, rejectSeen>>
    /\ UNCHANGED <<lockOf, holds, nextLock>>
    /\ UNCHANGED <<client, pure, backend>>

\* lines 138-153: fetch_func of leader r returns (ok) or raises, the leader is
\* resumed, stores the outcome, sets the event and leaves coalesce
FetchDone(r, ok) ==
    LET k == KeyOf(r)
        f == led[r]
        out == LeaderOutcome(k, f, ok)
    IN
    /\ pc[r] = "fetching"
    /\ running = 0
    /\ results' = Put(results, k, out)
    /\ bare' = Written(bare, r, k, WriteAt("_results", IF ok THEN 138 ELSE 147))
    /\ evset' = SetEvent(k)
    /\ fetches' = [fetches EXCEPT ![f].status = IF ok THEN "ok" ELSE "err",
                                  ![f].cls = IF ok THEN "none"
                                             ELSE "OpenMeteoUpstreamError"]
    /\ lastDone' = [lastDone EXCEPT ![k] = f]
    /\ pc' = [pc EXCEPT ![r] = "done"]
    /\ outcome' = [outcome EXCEPT ![r] = out]
    /\ UNCHANGED <<now, cache, events, nextEvent, waiter_counts, locks, req,
                   waitOn, via, led, attached, arrival, cancelSeen, rejectSeen>>
    /\ UNCHANGED <<running, lockOf, holds, nextLock, depth>>
    /\ UNCHANGED <<client, pure, backend>>

\* leader r is cancelled inside fetch_func: CancelledError is no Exception,
\* so the `except Exception` block is passed by and coalesce is left at once
CancelLeader(r) ==
    /\ pc[r] = "fetching"
    /\ running = 0
    /\ fetches' = [fetches EXCEPT ![led[r]].status = "cancelled"]
    /\ pc' = [pc EXCEPT ![r] = "done"]
    /\ outcome' = [outcome EXCEPT ![r] = CancelledErr]
    /\ UNCHANGED <<now, cache, coalescer, req, waitOn, via, led, attached,
                   arrival, lastDone, cancelSeen, rejectSeen>>
    /\ UNCHANGED tasks
    /\ UNCHANGED <<client, pure, backend>>

NextSteps ==
    \/ \E r \in Requests, raw \in TwoKeyCoords : Enter(r, raw)
    \/ \E r \in Requests : Acquire(r)
    \/ \E r \in Requests : FirstCheck(r)
    \/ \E r \in Requests : WaitOrLead(r)
    \/ \E r \in Requests : Wake(r)
    \/ \E r \in Requests : CancelWait(r)
    \/ \E r \in Requests : Finally(r)
    \/ \E r \in Requests : SecondCheck(r)
    \/ \E r \in Requests : LeadOrRecurse(r)
    \/ \E r \in Requests, ok \in BOOLEAN : FetchDone(r, ok)
    \/ \E r \in Requests : CancelLeader(r)

SpecSteps == Init /\ [][NextSteps]_vars

(* ---------------- C31: an unset event has a fetch behind it ----------- *)
\* some request is inside fetch_func for key k
Fetching(k) == \E r \in Requests : pc[r] = "fetching" /\ KeyOf(r) = k

\* key k is registered in _events and its event is not set
Unset(k) == HasEvent(k) /\ events[k] \notin evset

\* C31: whenever the event loop is between two requests, a key that is in
\* _events with an unset event has a request executing fetch_func for it; so
\* a key never stays registered and unset with nobody left to set its event,
\* and that also after the leader was cancelled during fetch_func.
C31_UnsetOnlyWhileFetching ==
    running = 0 => \A k \in Keys : Unset(k) => Fetching(k)

(* ---------------- C32: no double-check hit, no recursion -------------- *)
\* C32: a request is switched out only inside fetch_func and at the wait on
\* an unset event, never at a lock; no coalesce call takes the branch of the
\* double check that finds the key registered, and none calls coalesce again.
C32_NoRecursion ==
    \A r \in Requests :
        /\ pc[r] \in AcquireAt => running = r
        /\ via[r] # "recheck"
        /\ depth[r] = 0

\* a request has passed the double check and is about to fetch while an
\* earlier leader of the same key is still inside fetch_func
C32_Witness ==
    \E r, l \in Requests :
        /\ r # l /\ KeyOf(r) = KeyOf(l)
        /\ pc[l] = "fetching"
        /\ pc[r] = "L130" /\ via[r] = "leader" /\ depth[r] = 0

(* ---------------- C33: writes are made under the key's lock ----------- *)
\* two requests hold a Lock object made for the same key
TwoHolders ==
    \E r, q \in Requests :
        r # q /\ \E l \in holds[r], m \in holds[q] : l.key = m.key

\* C33: every write to and removal of a key's entries in _events, _results
\* and _waiter_counts is made by a request holding the key's lock, and no
\* two requests hold a lock of the same key at once, the Lock objects made
\* after a cleanup included.
C33_WritesUnderLock == bare = {} /\ ~TwoHolders

(* ---------------- C34: no lock is held across a suspension ------------ *)
\* C34: a request that is not running holds no lock: none while it awaits
\* fetch_func, none while it awaits the event, none after it has left.
C34_NoLockWhileSuspended ==
    \A r \in Requests : running # r => holds[r] = {}

\* a leader inside fetch_func and a waiter on its event, after both took and
\* released the key's lock, which is free
C34_Witness ==
    \E l, w \in Requests :
        /\ pc[l] = "fetching" /\ pc[w] = "waiting" /\ KeyOf(l) = KeyOf(w)
        /\ waitOn[w] = events[KeyOf(w)]
        /\ KeyOf(l) \in DOMAIN lockOf /\ ~Locked(KeyOf(l))
        /\ running = 0

(* ---------------- C35: rounding twice is rounding once ---------------- *)
\* coordinates at the ends of the range and next to zero
EdgeSamples ==
    {<<9000000, 18000000>>, <<-9000000, -18000000>>, <<8999995, 17999995>>,
     <<-8999995, -17999995>>, <<5, -5>>, <<-4, 6>>}

\* two calls of WeatherService.get_current_weather are about to be made, the
\* first with any of the sampled coordinates
InitRekey ==
    /\ InitService /\ InitClient /\ InitBackend /\ InitTasks
    /\ InitNormalizing /\ InitValidating
    /\ given \in (CoordSamples \cup EdgeSamples) \X TwoKeyCoords
    /\ keyed = <<>>

\* get_current_weather is called with the rounded coordinates of both calls:
\* rounded_lat, rounded_lon are computed from them again
KeyAgain ==
    /\ Len(keyed) = 2
    /\ keyed' = keyed \o <<CoalesceKey(keyed[1]), CoalesceKey(keyed[2])>>
    /\ UNCHANGED <<given, normalizing, validating, service, client, backend,
                   tasks>>

NextRekey == ComputeKeys \/ KeyAgain

SpecRekey == InitRekey /\ [][NextRekey]_vars

\* C35: round(round(x, 4), 4) = round(x, 4) for every latitude and longitude:
\* the key computed from an already rounded coordinate pair is that pair.
C35_RoundIdempotent ==
    /\ Len(keyed) >= 2 => \A i \in 1..2 : CoalesceKey(keyed[i]) = keyed[i]
    /\ Len(keyed) = 4 => keyed[3] = keyed[1] /\ keyed[4] = keyed[2]

\* the key of a coordinate that rounding moved (a negative latitude rounded
\* away from zero, at the edge of the range) was computed again
C35_Witness ==
    /\ Len(keyed) = 4
    /\ given[1] = <<-8999995, -17999995>>
    /\ keyed[1] # given[1]
    /\ keyed[3] = keyed[1]

(* ---------------- C36: an expired entry is not returned --------------- *)
\* the step is a get(k) call on the backend
IsGet(k) == clock' = clock + 1 /\ lastOp'.op = "get" /\ lastOp'.key = k

\* the expire seconds given to the set of key k, which is stored, are over
Expired(k) == Has(store, k) /\ deadline[k] < now

C36_GetStep ==
    \A k \in LruKeys :
        (IsGet(k) /\ Expired(k)) => (lastOp'.ret = None /\ ~Has(store', k))

\* C36: a get of a key whose expire seconds, given to its set, are over
\* returns None and removes the entry, as for a key that was never set.
C36_ExpiredGetReturnsNone == [][C36_GetStep]_vars

(* ---------------- C37: set on a key that is present ------------------- *)
\* the step is the call set(k, v)
SetOf(k, v) == IsSet(k) /\ store' = StoreAfterSet(store, k, v)

\* a set of a present key: new value, most recently used, nothing evicted,
\* the same keys and size, every other value as before
C37_UpdateStep ==
    \A k \in LruKeys, v \in LruValues :
        (SetOf(k, v) /\ Has(store, k)) =>
            /\ ItemOf(store', k).value = v
            /\ store'[Len(store')].key = k
            /\ lastOp'.evicted = ""
            /\ KeysOf(store') = KeysOf(store)
            /\ Size(store') = Size(store)
            /\ \A o \in KeysOf(store) \ {k} :
                  ItemOf(store', o).value = ItemOf(store, o).value

\* the latest call was a set of key k, which was present
Updated(k) == lastOp.op = "set" /\ lastOp.key = k /\ lastOp.had

\* the step inserts key n, which is not present, into a full backend
Inserts(n) == IsSet(n) /\ ~Has(store, n) /\ Size(store) >= max_size

\* the insertion that follows the update of k evicts another entry
C37_NextInsertStep ==
    \A k, n \in LruKeys :
        (Updated(k) /\ Inserts(n)) =>
            /\ lastOp'.evicted \in KeysOf(store) \ {k}
            /\ Has(store', k)

\* the same, on a backend that holds another entry than k
C37_NextInsertOtherStep ==
    \A k, n \in LruKeys :
        (Updated(k) /\ Inserts(n) /\ Size(store) >= 2) =>
            /\ lastOp'.evicted \in KeysOf(store) \ {k}
            /\ Has(store', k)

\* C37 as stated: set on a key that is present replaces its value, makes it
\* the most recently used entry, evicts nothing and leaves size() unchanged,
\* also on a full backend; the next insertion of a new key then evicts
\* another entry, not this one.
C37_UpdateKeepsEntry == [][C37_UpdateStep /\ C37_NextInsertStep]_vars

\* C37, amended: set on a key that is present replaces its value, makes it
\* the most recently used entry, evicts nothing and leaves size() unchanged,
\* also on a full backend; when the backend holds another entry, the next
\* insertion of a new key evicts one of the others, not this one.
C37_UpdateKeepsEntryAmongOthers ==
    [][C37_UpdateStep /\ C37_NextInsertOtherStep]_vars

\* on a full backend of two entries the least recently used one was set again
\* with a new value: it is now the most recently used, the other entry is the
\* one the next insertion evicts
C37_Witness ==
    /\ max_size = 2 /\ Size(store) = 2 /\ clock = 3
    /\ lastOp.op = "set" /\ lastOp.had /\ lastOp.evicted = ""
    /\ store[2] = [key |-> lastOp.key, value |-> 2]
    /\ store[1].value = 1
    /\ lastUse[store[1].key] = 2
    /\ lastUse[store[2].key] = 3

(* ---------------- C38: the location of the client's response --------- *)
\* faulty variant: the location is built from the rounded coordinates
LocationModelRounded(lat, lon) == [lat |-> Round4(lat), lon |-> Round4(lon)]

\* LocationModel(lat=latitude, lon=longitude): the validator returns each
\* value as it is
LocationModel(lat, lon) == [lat |-> lat, lon |-> lon]

\* the coordinates of test_coordinate_rounding, to 5 decimals
TestCoords == <<5212346, 1365432>>

\* OpenMeteoClient.get_current_weather(latitude, longitude) is about to be
\* called with given[1]; the upstream will answer 5.5 degrees and 10.0 km/h
InitLocate ==
    /\ InitService /\ InitClient /\ InitBackend /\ InitTasks
    /\ InitValidating
    /\ given \in (CoordSamples \cup EdgeSamples \cup {TestCoords}) \X {NoRaw}
    /\ keyed = <<>>
    /\ upstream = [temperature_2m |-> Num(550), wind_speed_10m |-> Num(1000)]
    /\ normalized = <<>>

\* the upstream answers and the client returns
\* self._normalize_response(data, latitude, longitude)
ClientReturns ==
    /\ normalized = <<>>
    /\ normalized' = [location |-> LocationModel(given[1][1], given[1][2]),
                      temperatureC |-> RoundOrNone(upstream.temperature_2m),
                      windSpeedKmh |-> RoundOrNone(upstream.wind_speed_10m),
                      source |-> "open-meteo"]
    /\ UNCHANGED <<upstream, keying, validating, service, client, backend,
                   tasks>>

NextLocate == ClientReturns

SpecLocate == InitLocate /\ [][NextLocate]_vars

AliasValues == {Null, Num(5252000), Num(5252010)}

\* the values among vs that are not None
NotNone(vs) == {v \in vs : v # Null}

\* the first of the values in sequence s that is not None, None when none is
FirstNotNone(s) ==
    IF \E i \in 1..Len(s) : s[i] # Null
    THEN s[CHOOSE i \in 1..Len(s) :
               s[i] # Null /\ \A j \in 1..(i - 1) : s[j] = Null]
    ELSE Null

\* the body shared by the two functions: short and long are the three
\* spellings (lower, mixed, upper case) of the short and of the long name
AliasParam(short, long, what) ==
    LET short_values == NotNone({short[i] : i \in 1..3})
        long_values == NotNone({long[i] : i \in 1..3})
    IN  IF short_values = {} /\ long_values = {}
        THEN [status |-> 200, detail |-> "", value |-> Null]
        ELSE IF short_values # {} /\ long_values # {}
                /\ short_values # long_values
        THEN [status |-> 400, detail |-> what, value |-> Null]
        ELSE [status |-> 200, detail |-> "",
              value |-> FirstNotNone(short \o long)]

get_latitude_param(q) ==
    AliasParam(<<q.lat, q.Lat, q.LAT>>, <<q.latitude, q.Latitude, q.LATITUDE>>,
               "Conflicting latitude values provided (lat and latitude)")

get_longitude_param(q) ==
    AliasParam(<<q.lon, q.Lon, q.LON>>,
               <<q.longitude, q.Longitude, q.LONGITUDE>>,
               "Conflicting longitude values provided (lon and longitude)")

\* the aliases of a latitude, or of a longitude, as a request carries them
LatitudeQueries ==
    [lat : AliasValues, Lat : AliasValues, LAT : AliasValues,
     latitude : AliasValues, Latitude : AliasValues, LATITUDE : AliasValues]
LongitudeQueries ==
    [lon : AliasValues, Lon : AliasValues, LON : AliasValues,
     longitude : AliasValues, Longitude : AliasValues, LONGITUDE : AliasValues]

\* one of the two dependencies is about to be called with these aliases
InitAliases ==
    /\ InitService /\ InitClient /\ InitBackend /\ InitTasks
    /\ InitKeying /\ InitNormalizing
    /\ query \in LatitudeQueries \cup LongitudeQueries
    /\ answer = <<>>

\* the dependency is called
AliasCall ==
    /\ answer = <<>>
    /\ answer' = IF query \in LatitudeQueries THEN get_latitude_param(query)
                 ELSE get_longitude_param(query)
    /\ UNCHANGED <<query, keying, normalizing, service, client, backend,
                   tasks>>

NextAliases == AliasCall

SpecAliases == InitAliases /\ [][NextAliases]_vars

\* the values the request supplies for the coordinate, whatever the alias
SuppliedValues == NotNone({query[f] : f \in DOMAIN query})

\* C39: get_latitude_param and get_longitude_param raise HTTP 400 whenever
\* two supplied aliases of the coordinate carry different values, two short
\* or two long ones included; when all supplied aliases agree they return
\* that value, and None when none is supplied.
C39_AnyConflictRejected ==
    answer # <<>> =>
        IF SuppliedValues = {}
        THEN answer.status = 200 /\ answer.value = Null
        ELSE IF Cardinality(SuppliedValues) > 1
        THEN answer.status = 400
        ELSE answer.status = 200 /\ answer.value \in SuppliedValues

=============================================================================
